---- MODULE Spec2Model ----
(***************************************************************************)
(* Turn-by-turn narration of the running tracker: the Directions panel     *)
(* (components/Directions.tsx) as mounted by the home page (app/page.tsx). *)
(*                                                                         *)
(* The panel is a React function component.  Its state lives in hooks, its *)
(* handlers and effects are closures over the values of one render, and    *)
(* its effects run after the commit in which one of their dependencies     *)
(* changed, in the order in which the component declares them.  The model  *)
(* keeps that structure: an event handler commits its state updates and    *)
(* leaves the effects whose dependencies changed in `pending`; RunEffects  *)
(* runs them against the committed render and commits their updates.       *)
(*                                                                         *)
(* Geography: points lie on one meridian, a point is its offset in metres, *)
(* so the haversine distance of two points is the absolute difference.     *)
(* Speech: the browser is assumed to offer speechSynthesis.                *)
(***************************************************************************)
EXTENDS Integers, Sequences, FiniteSets, TLC

\* ----------------------------------------------------------------------
\* Bounds of the model
\* ----------------------------------------------------------------------
\* positions are the multiples 0 .. MaxCell of the advance threshold
MaxCell == 2
\* directions requests that may be outstanding at the same time
MaxInFlight == 2

\* ----------------------------------------------------------------------
\* Values
\* ----------------------------------------------------------------------
\* `undefined` / `null` for an optional LatLng
NoPoint == -1

\* proximity threshold of the auto-advance effect, in metres
threshold == 25

Positions == {threshold * k : k \in 0..MaxCell}

\* the shapes the page can hand to the panel; 0 stands for `null`
NoShape == 0
Shapes == {1, 2}

\* haversine distance, restricted to points of one meridian
calculateDistance(a, b) == IF a >= b THEN a - b ELSE b - a

\* ----------------------------------------------------------------------
\* Instruction text.  A text is a sequence of characters; "<>" stands for
\* one whole HTML tag, " " for one whitespace character.
\* ----------------------------------------------------------------------
TAG == "<>"
SPACE == " "

toLowerCase(c) ==
    CASE c = "A" -> "a"
      [] c = "B" -> "b"
      [] c = "C" -> "c"
      [] OTHER -> c

RECURSIVE trimStart(_)
trimStart(s) ==
    IF s # <<>> /\ Head(s) = SPACE THEN trimStart(Tail(s)) ELSE s

RECURSIVE trimEnd(_)
trimEnd(s) ==
    IF s # <<>> /\ s[Len(s)] = SPACE THEN trimEnd(SubSeq(s, 1, Len(s) - 1)) ELSE s

\* s.replace(/\s+/g, ' '): every run of whitespace becomes one space
RECURSIVE collapseSpaces(_)
collapseSpaces(s) ==
    IF Len(s) < 2 THEN s
    ELSE IF s[1] = SPACE /\ s[2] = SPACE THEN collapseSpaces(Tail(s))
    ELSE <<s[1]>> \o collapseSpaces(Tail(s))

\* s.replace(/<[^>]*>/g, '').trim().replace(/\s+/g, ' ').toLowerCase()
normalizeInstruction(s) ==
    LET stripped == SelectSeq(s, LAMBDA c : c # TAG)
        collapsed == collapseSpaces(trimEnd(trimStart(stripped)))
    IN  [i \in DOMAIN collapsed |-> toLowerCase(collapsed[i])]

\* A step distance is either a number (unit "") or a text such as "120 m"
\* or "2 km": [v |-> the digits, unit |-> "", "m" or "km"].
toMeters(d) ==
    IF d.unit = "" THEN d.v
    ELSE IF d.unit = "km" THEN d.v * 1000
    ELSE d.v

RawStep(instr, v, unit, st, en) ==
    [instruction |-> instr, distance |-> [v |-> v, unit |-> unit], start |-> st, end |-> en]

\* a merge that compares the instructions as they are written
RECURSIVE mergeIntoExact(_, _)
mergeIntoExact(out, rawSteps) ==
    IF rawSteps = <<>> THEN out
    ELSE
      LET st == Head(rawSteps)
          distanceMeters == toMeters(st.distance)
          n == Len(out)
      IN  IF n > 0 /\ out[n].instruction = st.instruction
          THEN mergeIntoExact(
                 [out EXCEPT ![n] =
                    [@ EXCEPT !.distanceMeters = @ + distanceMeters,
                              !.end = IF st.end # NoPoint THEN st.end ELSE @]],
                 Tail(rawSteps))
          ELSE mergeIntoExact(
                 Append(out, [instruction |-> st.instruction,
                              distanceMeters |-> distanceMeters,
                              start |-> st.start,
                              end |-> st.end]),
                 Tail(rawSteps))

\* Merge consecutive steps with identical normalized instructions, summing
\* the distances and keeping the latest end point.
RECURSIVE mergeInto(_, _)
mergeInto(out, rawSteps) ==
    IF rawSteps = <<>> THEN out
    ELSE
      LET st == Head(rawSteps)
          norm == normalizeInstruction(st.instruction)
          distanceMeters == toMeters(st.distance)
          n == Len(out)
      IN  IF n > 0 /\ normalizeInstruction(out[n].instruction) = norm
          THEN mergeInto(
                 [out EXCEPT ![n] =
                    [@ EXCEPT !.distanceMeters = @ + distanceMeters,
                              !.end = IF st.end # NoPoint THEN st.end ELSE @]],
                 Tail(rawSteps))
          ELSE mergeInto(
                 Append(out, [instruction |-> st.instruction,
                              distanceMeters |-> distanceMeters,
                              start |-> st.start,
                              end |-> st.end]),
                 Tail(rawSteps))

mergeConsecutiveSteps(rawSteps) == mergeInto(<<>>, rawSteps)

\* ----------------------------------------------------------------------
\* What the two route sources answer for a shape
\* ----------------------------------------------------------------------
\* getDetailedRouteInfo: the provider's steps, instruction already sanitized,
\* distance as text, start and end location when the provider gives them.
\* Shape 1: four steps, the second and third with the same instruction up to
\* case and markup; end points at 0, 25, 50 and 75 m.  Shape 2: a route
\* without steps.
GoogleSteps(sh) ==
    IF sh = 1
    THEN << RawStep(<<"a">>, 10, "m", 0, 0),
            RawStep(<<"B", " ">>, 25, "m", 0, threshold),
            RawStep(<<"b">>, 25, "m", threshold, 2 * threshold),
            RawStep(<<"c">>, 1, "km", 2 * threshold, 3 * threshold) >>
    ELSE << >>

\* generateRoute / generateMockRoute: compass instructions, numeric
\* distances, no start or end point on any step.
MockSteps(sh) ==
    IF sh = 2
    THEN << RawStep(<<"f">>, 40, "", NoPoint, NoPoint) >>
    ELSE << RawStep(<<"s">>, 40, "", NoPoint, NoPoint),
            RawStep(<<"t">>, 60, "", NoPoint, NoPoint) >>

\* ----------------------------------------------------------------------
\* Messages handed to speak().  A message is the text as a sequence of
\* pieces: a fixed phrase followed by the characters of an instruction.
\* ----------------------------------------------------------------------
StartMsg(instr) == <<"Start. ">> \o instr
ArrivalMsg == <<"You have reached your destination">>
EndedMsg == <<"Navigation ended">>
TestMsg == <<"Test. Voice is working.">>
VoiceEnabledMsg(instr) ==
    IF instr # <<>> THEN <<"Voice enabled. ">> \o instr ELSE <<"Voice enabled">>
SpeakNowMsg(instr) ==
    IF instr # <<>> THEN instr ELSE <<"Speaking current direction">>

\* the three effects of the panel that the model runs
GEN == "generateDirections"
READY == "routeReady"
AUTO == "autoAdvance"

NoRoute == [isNull |-> TRUE, steps |-> << >>]

VARIABLES
    \* app/page.tsx
    isRunning,            \* runState.isRunning
    currentPosition,      \* runState.currentPosition (NoPoint = null)
    userLocationSet,      \* userLocation !== null
    directionsShape,      \* the shape shown in the panel (NoShape = null)
    \* components/Directions.tsx, one mounted instance
    route, loading, error, currentStep, voiceEnabled, autoAdvanceEnabled,
    voiceAutoEnabledRef, arrivalSpokenRef, steps,
    pending,              \* effects whose dependencies changed in the last commit
    inflight,             \* generateDirections calls awaiting their route
    \* window.speechSynthesis
    utterance,            \* what is being spoken or queued, "none" when idle
    \* observers, read by the properties only
    emitted,              \* the speak() calls of the last step, in order
    lastEvent,            \* the last event that came from outside React
    advances,             \* auto-advances since that event
    narrations,           \* speak() calls since that event
    arrivals,             \* arrival messages since the step list was loaded
    autoEnabledOnce,      \* a route has auto-enabled voice since the page loaded
    \* the route-fitting pipeline: the locals of the call in progress
    fit,                  \* findScaleForTargetDistance / fitShapeToDistance (SpecAwait: its trial loop)
    resolution,           \* getShapeRoute / getDetailedRouteInfo (SpecAwait: the requests of one call)
    corrector,            \* shiftShapeToLand, scaleShapeIfNeeded (SpecRender: the Map that applies them)
    reduction             \* dedupeSequentialPoints, consolidatePoints, samplePointsEvery30Meters,
                          \* smoothShapePoints (SpecMerge: mergeConsecutiveSteps)

pageVars == <<isRunning, currentPosition, userLocationSet, directionsShape>>
panelVars == <<route, loading, error, currentStep, voiceEnabled, autoAdvanceEnabled,
               voiceAutoEnabledRef, arrivalSpokenRef, steps>>
observers == <<emitted, lastEvent, advances, narrations, arrivals, autoEnabledOnce>>
pipelineVars == <<fit, resolution, corrector, reduction>>
narrationVars == <<pageVars, panelVars, pending, inflight, utterance, observers>>
vars == <<pageVars, panelVars, pending, inflight, utterance, observers, pipelineVars>>

\* no call of the pipeline in progress
NoCall == [op |-> "none"]

\* page.tsx renders <Directions> under this condition
mounted == directionsShape # NoShape /\ (userLocationSet \/ currentPosition # NoPoint)

\* the panel shows its controls (not the spinner, not the error card)
panelShown == mounted /\ ~loading /\ error = "" /\ ~route.isNull

lastIndex == Len(steps) - 1
\* steps[i] of the source, whose indices start at 0
StepAt(i) == steps[i + 1]
HasStep(i) == i >= 0 /\ i < Len(steps)

\* ----------------------------------------------------------------------
\* speak(text): an utterance, unless voice is off in the calling render.
\* The result is the list of speak() records to append to `emitted`.
\* ----------------------------------------------------------------------
speak(voice, text) == << [text |-> text, voiced |-> voice] >>

\* The speech queue is written by the panel and never read by it; of the
\* utterance it holds the model keeps whether it is the closing narration
\* or a narration of the route.
Utterance(text) == IF text = EndedMsg THEN "closing" ELSE "narration"

\* speechSynthesis after a list of speak() calls: every voiced call cancels
\* what was queued and queues its own utterance
Spoken(calls, before) ==
    LET voicedCalls == SelectSeq(calls, LAMBDA c : c.voiced)
    IN  IF voicedCalls = <<>> THEN before
        ELSE Utterance(voicedCalls[Len(voicedCalls)].text)

\* the page as loaded, no panel mounted
PageInit ==
    /\ isRunning = FALSE
    /\ currentPosition = NoPoint
    /\ userLocationSet \in BOOLEAN
    /\ directionsShape = NoShape
    /\ route = NoRoute
    /\ loading = TRUE
    /\ error = ""
    /\ currentStep = 0
    /\ voiceEnabled = FALSE
    /\ autoAdvanceEnabled = TRUE
    /\ voiceAutoEnabledRef = FALSE
    /\ arrivalSpokenRef = FALSE
    /\ steps = << >>
    /\ pending = {}
    /\ inflight = << >>
    /\ utterance = "none"
    /\ emitted = << >>
    /\ lastEvent = "init"
    /\ advances = 0
    /\ narrations = 0
    /\ arrivals = 0
    /\ autoEnabledOnce = FALSE

Init ==
    /\ PageInit
    /\ fit = NoCall
    /\ resolution = NoCall
    /\ corrector = NoCall
    /\ reduction = NoCall

\* an event from outside React starts a new response
Observe(ev, calls) ==
    /\ emitted' = calls
    /\ lastEvent' = ev
    /\ advances' = 0
    /\ narrations' = Len(calls)

\* ----------------------------------------------------------------------
\* The effects of Directions.tsx, as functions of the render they close over
\* ----------------------------------------------------------------------
\* a plausible slip of the comparison: strictly inside the threshold
withinThresholdStrict(dist) == dist < threshold

\* dist <= threshold
withinThreshold(dist) == dist <= threshold

\* !arrivalSpokenRef.current
arrivalDue(arrRef) == ~arrRef

\* a plausible slip of the auto-enable: the ref is not consulted
autoEnableAlways(voice, autoRef) == TRUE

\* if (!voiceAutoEnabledRef.current) setVoiceEnabled(true): voiceEnabled of
\* the next render
autoEnableVoice(voice, autoRef) == IF ~autoRef THEN TRUE ELSE voice

\* "On route ready, announce first instruction": the effect on [steps].
\* st, voice: steps and voiceEnabled of the render; autoRef, arrRef: the refs.
routeReadyEffect(st, voice, autoRef, arrRef) ==
    IF Len(st) > 0
    THEN [fires |-> TRUE,
          voiceEnabled |-> autoEnableVoice(voice, autoRef),
          voiceAutoEnabledRef |-> TRUE,
          arrivalSpokenRef |-> FALSE,
          calls |-> speak(voice, StartMsg(st[1].instruction))]
    ELSE [fires |-> FALSE,
          voiceEnabled |-> voice,
          voiceAutoEnabledRef |-> autoRef,
          arrivalSpokenRef |-> arrRef,
          calls |-> << >>]

\* an effect that does not return on a step without an end point and takes
\* the missing point for a place
autoAdvanceEffectAnyEnd(c, st, pos, enabled, voice, arrRef) ==
    LET looks == enabled /\ Len(st) > 0 /\ pos # NoPoint
                 /\ c >= 0 /\ c < Len(st)
        near == looks /\ withinThreshold(calculateDistance(pos, st[c + 1].end))
    IN  IF near /\ c < Len(st) - 1
        THEN [advance |-> TRUE, arrive |-> FALSE, nextIndex |-> c + 1,
              arrivalSpokenRef |-> arrRef,
              calls |-> speak(voice, st[c + 2].instruction)]
        ELSE IF near /\ c = Len(st) - 1 /\ arrivalDue(arrRef)
        THEN [advance |-> FALSE, arrive |-> TRUE, nextIndex |-> c,
              arrivalSpokenRef |-> TRUE,
              calls |-> speak(voice, ArrivalMsg)]
        ELSE [advance |-> FALSE, arrive |-> FALSE, nextIndex |-> c,
              arrivalSpokenRef |-> arrRef,
              calls |-> << >>]

\* "Auto-advance step based on proximity to current step end": the effect on
\* [currentPosition, currentStep, autoAdvanceEnabled, steps].  c, st, pos,
\* enabled, voice are values of the render; arrRef is the ref as the effect
\* finds it.
autoAdvanceEffect(c, st, pos, enabled, voice, arrRef) ==
    LET looks == enabled /\ Len(st) > 0 /\ pos # NoPoint
                 /\ c >= 0 /\ c < Len(st) /\ st[c + 1].end # NoPoint
        near == looks /\ withinThreshold(calculateDistance(pos, st[c + 1].end))
    IN  IF near /\ c < Len(st) - 1
        THEN [advance |-> TRUE, arrive |-> FALSE, nextIndex |-> c + 1,
              arrivalSpokenRef |-> arrRef,
              calls |-> speak(voice, st[c + 2].instruction)]
        ELSE IF near /\ c = Len(st) - 1 /\ arrivalDue(arrRef)
        THEN [advance |-> FALSE, arrive |-> TRUE, nextIndex |-> c,
              arrivalSpokenRef |-> TRUE,
              calls |-> speak(voice, ArrivalMsg)]
        ELSE [advance |-> FALSE, arrive |-> FALSE, nextIndex |-> c,
              arrivalSpokenRef |-> arrRef,
              calls |-> << >>]

\* the effect on [shape, userLocation]: generateDirections up to its first await
generateDirectionsEffect(reqs, sh) == Append(reqs, [shape |-> sh])

\* React runs the effects whose dependencies changed, in declaration order,
\* all against the render just committed, and then commits their updates in
\* one batch (of two setCurrentStep calls the later one wins).
RunEffects ==
    /\ pending # {}
    /\ mounted
    /\ LET ready == IF READY \in pending
                    THEN routeReadyEffect(steps, voiceEnabled, voiceAutoEnabledRef,
                                          arrivalSpokenRef)
                    ELSE [fires |-> FALSE, voiceEnabled |-> voiceEnabled,
                          voiceAutoEnabledRef |-> voiceAutoEnabledRef,
                          arrivalSpokenRef |-> arrivalSpokenRef, calls |-> << >>]
           auto == IF AUTO \in pending
                   THEN autoAdvanceEffect(currentStep, steps, currentPosition,
                                          autoAdvanceEnabled, voiceEnabled,
                                          ready.arrivalSpokenRef)
                   ELSE [advance |-> FALSE, arrive |-> FALSE, nextIndex |-> currentStep,
                         arrivalSpokenRef |-> ready.arrivalSpokenRef, calls |-> << >>]
           calls == ready.calls \o auto.calls
       IN  /\ inflight' = IF GEN \in pending
                          THEN generateDirectionsEffect(inflight, directionsShape)
                          ELSE inflight
           /\ loading' = IF GEN \in pending THEN TRUE ELSE loading
           /\ error' = IF GEN \in pending THEN "" ELSE error
           /\ currentStep' = IF auto.advance THEN auto.nextIndex
                             ELSE IF ready.fires THEN 0 ELSE currentStep
           /\ voiceEnabled' = ready.voiceEnabled
           /\ voiceAutoEnabledRef' = ready.voiceAutoEnabledRef
           /\ arrivalSpokenRef' = auto.arrivalSpokenRef
           /\ utterance' = Spoken(calls, utterance)
           /\ emitted' = calls
           /\ advances' = advances + (IF auto.advance THEN 1 ELSE 0)
           /\ narrations' = narrations + Len(calls)
           /\ arrivals' = (IF ready.fires THEN 0 ELSE arrivals)
                          + (IF auto.arrive THEN 1 ELSE 0)
    /\ pending' = IF currentStep' # currentStep THEN {AUTO} ELSE {}
    /\ autoEnabledOnce' = (autoEnabledOnce \/ voiceAutoEnabledRef' # voiceAutoEnabledRef)
    /\ UNCHANGED <<pageVars, route, autoAdvanceEnabled, steps, lastEvent>>
    /\ UNCHANGED pipelineVars

\* ----------------------------------------------------------------------
\* app/page.tsx
\* ----------------------------------------------------------------------
\* a first render of <Directions>: hook defaults, every effect due
MountPanel ==
    /\ route' = NoRoute
    /\ loading' = TRUE
    /\ error' = ""
    /\ currentStep' = 0
    /\ voiceEnabled' = FALSE
    /\ autoAdvanceEnabled' = TRUE
    /\ voiceAutoEnabledRef' = FALSE
    /\ arrivalSpokenRef' = FALSE
    /\ steps' = << >>
    /\ pending' = {GEN, READY, AUTO}

\* onClose: setDirectionsShape(null) unmounts the panel.  Its hooks are
\* discarded with it (the variables go back to the hook defaults), and what
\* its requests answer later is set on an unmounted component, that is
\* dropped.
onClose ==
    /\ directionsShape' = NoShape
    /\ pending' = {}
    /\ inflight' = << >>
    /\ route' = NoRoute
    /\ loading' = TRUE
    /\ error' = ""
    /\ currentStep' = 0
    /\ voiceEnabled' = FALSE
    /\ autoAdvanceEnabled' = TRUE
    /\ voiceAutoEnabledRef' = FALSE
    /\ arrivalSpokenRef' = FALSE
    /\ steps' = << >>

\* handleStartRun, at the moment its location arrives.  sh is the surprise
\* shape or the latest drawn shape, NoShape when there is none.
StartRun(loc, sh) ==
    /\ ~isRunning
    /\ pending = {}
    /\ isRunning' = TRUE
    /\ currentPosition' = loc
    /\ directionsShape' = IF sh # NoShape THEN sh ELSE directionsShape
    /\ IF mounted
       THEN /\ pending' = {AUTO} \cup
                          (IF directionsShape' # directionsShape \/ ~userLocationSet
                           THEN {GEN} ELSE {})
            /\ UNCHANGED panelVars
       ELSE IF sh # NoShape
       THEN MountPanel
       ELSE UNCHANGED <<panelVars, pending>>
    /\ GEN \in pending' => Len(inflight) < MaxInFlight
    /\ Observe("other", << >>)
    /\ UNCHANGED <<userLocationSet, inflight, utterance, arrivals, autoEnabledOnce>>
    /\ UNCHANGED pipelineVars

\* handleStopRun
StopRun ==
    /\ isRunning
    /\ pending = {}
    /\ isRunning' = FALSE
    /\ Observe("other", << >>)
    /\ UNCHANGED <<currentPosition, userLocationSet, directionsShape, panelVars, pending,
                   inflight, utterance, arrivals, autoEnabledOnce>>
    /\ UNCHANGED pipelineVars

\* handlePositionUpdate, called by the geolocation watch of the map; the page
\* renders the map only when it has a userLocation
PositionUpdate(p) ==
    /\ userLocationSet
    /\ isRunning
    /\ pending = {}
    /\ currentPosition' = p
    /\ pending' = IF mounted THEN {AUTO} ELSE {}
    /\ Observe("position", << >>)
    /\ UNCHANGED <<isRunning, userLocationSet, directionsShape, panelVars,
                   inflight, utterance, arrivals, autoEnabledOnce>>
    /\ UNCHANGED pipelineVars

\* setUserLocation, when the page's own location lookup succeeds
SetUserLocation ==
    /\ ~userLocationSet
    /\ pending = {}
    /\ userLocationSet' = TRUE
    /\ pending' = IF mounted THEN {GEN} ELSE {}
    /\ GEN \in pending' => Len(inflight) < MaxInFlight
    /\ Observe("other", << >>)
    /\ UNCHANGED <<isRunning, currentPosition, directionsShape, panelVars,
                   inflight, utterance, arrivals, autoEnabledOnce>>
    /\ UNCHANGED pipelineVars

\* ----------------------------------------------------------------------
\* generateDirections after its awaits: request i is answered.  outcome is
\* what the two route sources gave: the provider's route, else the mock
\* route, else nothing, or an exception.
\* ----------------------------------------------------------------------
Outcomes == {"google", "mock", "none", "throw"}

RemoveAt(q, i) == SubSeq(q, 1, i - 1) \o SubSeq(q, i + 1, Len(q))

RouteResponse(i, outcome) ==
    /\ pending = {}
    /\ mounted
    /\ i \in DOMAIN inflight
    /\ inflight' = RemoveAt(inflight, i)
    /\ LET raw == IF outcome = "google"
                  THEN GoogleSteps(inflight[i].shape)
                  ELSE MockSteps(inflight[i].shape)
       IN  IF outcome \in {"google", "mock"}
           THEN /\ route' = [isNull |-> FALSE, steps |-> raw]
                /\ steps' = mergeConsecutiveSteps(raw)
                /\ pending' = {READY, AUTO}
                /\ UNCHANGED error
           ELSE /\ error' = IF outcome = "none"
                            THEN "Unable to generate directions for this route"
                            ELSE "Failed to generate directions"
                /\ pending' = {}
                /\ UNCHANGED <<route, steps>>
    /\ loading' = FALSE
    /\ Observe("response", << >>)
    /\ UNCHANGED <<pageVars, currentStep, voiceEnabled, autoAdvanceEnabled,
                   voiceAutoEnabledRef, arrivalSpokenRef, utterance, arrivals,
                   autoEnabledOnce>>
    /\ UNCHANGED pipelineVars

\* ----------------------------------------------------------------------
\* Controls of the panel (Directions.tsx)
\* ----------------------------------------------------------------------
\* route?.steps?.[currentStep]?.instruction, '' when there is none
routeInstruction(c) ==
    IF ~route.isNull /\ c >= 0 /\ c < Len(route.steps)
    THEN route.steps[c + 1].instruction
    ELSE << >>

Min(a, b) == IF a <= b THEN a ELSE b
Max(a, b) == IF a >= b THEN a ELSE b

\* a handler that only moves the cursor and speaks
MoveCursor(ev, nextIndex, calls) ==
    /\ currentStep' = nextIndex
    /\ pending' = IF nextIndex # currentStep THEN {AUTO} ELSE {}
    /\ utterance' = Spoken(calls, utterance)
    /\ Observe(ev, calls)
    /\ UNCHANGED <<pageVars, route, loading, error, voiceEnabled, autoAdvanceEnabled,
                   voiceAutoEnabledRef, arrivalSpokenRef, steps, inflight, arrivals,
                   autoEnabledOnce>>
    /\ UNCHANGED pipelineVars

\* handleNextStep; the button is disabled on the last step
handleNextStep ==
    /\ panelShown /\ pending = {}
    /\ currentStep # Len(steps) - 1
    /\ LET nextIndex == Min(Len(steps) - 1, currentStep + 1)
       IN  MoveCursor("next", nextIndex,
                      IF HasStep(nextIndex) /\ StepAt(nextIndex).instruction # << >>
                      THEN speak(voiceEnabled, StepAt(nextIndex).instruction)
                      ELSE << >>)

\* the Previous button; disabled on step 0
handlePreviousStep ==
    /\ panelShown /\ pending = {}
    /\ currentStep # 0
    /\ MoveCursor("other", Max(0, currentStep - 1), << >>)

\* a click on row `index` of the step list
selectStep(index) ==
    /\ panelShown /\ pending = {}
    /\ HasStep(index)
    /\ MoveCursor("other", index, << >>)

\* the Speak and the Test buttons
speakNow ==
    /\ panelShown /\ pending = {}
    /\ MoveCursor("other", currentStep,
                  speak(voiceEnabled, SpeakNowMsg(routeInstruction(currentStep))))

handleTestVoice ==
    /\ panelShown /\ pending = {}
    /\ MoveCursor("other", currentStep, speak(voiceEnabled, TestMsg))

\* handleToggleVoice(checked); the checkbox shows voiceEnabled, so a click
\* passes its negation.  speak() reads voiceEnabled of the render in which the
\* handler was created.
handleToggleVoice(checked) ==
    /\ panelShown /\ pending = {}
    /\ checked = ~voiceEnabled
    /\ voiceEnabled' = checked
    /\ LET calls == IF checked
                    THEN speak(voiceEnabled, VoiceEnabledMsg(routeInstruction(currentStep)))
                    ELSE << >>
       IN  /\ utterance' = IF checked THEN Spoken(calls, utterance) ELSE "none"
           /\ Observe("voice", calls)
    /\ pending' = {}
    /\ UNCHANGED <<pageVars, route, loading, error, currentStep, autoAdvanceEnabled,
                   voiceAutoEnabledRef, arrivalSpokenRef, steps, inflight, arrivals,
                   autoEnabledOnce>>
    /\ UNCHANGED pipelineVars

\* the Auto-advance checkbox
toggleAutoAdvance ==
    /\ panelShown /\ pending = {}
    /\ autoAdvanceEnabled' = ~autoAdvanceEnabled
    /\ pending' = {AUTO}
    /\ Observe("other", << >>)
    /\ UNCHANGED <<pageVars, route, loading, error, currentStep, voiceEnabled,
                   voiceAutoEnabledRef, arrivalSpokenRef, steps, inflight, utterance,
                   arrivals, autoEnabledOnce>>
    /\ UNCHANGED pipelineVars

\* the X of the header, and Close on the error card: onClose and nothing else
closePanel ==
    /\ mounted /\ pending = {}
    /\ ~loading
    /\ error # "" \/ ~route.isNull
    /\ onClose
    /\ Observe("close", << >>)
    /\ UNCHANGED <<isRunning, currentPosition, userLocationSet, utterance,
                   arrivals, autoEnabledOnce>>
    /\ UNCHANGED pipelineVars

\* a plausible slip of handleEndNavigation: onClose without the narration
handleEndNavigationSilent ==
    /\ panelShown /\ pending = {}
    /\ Observe("end", << >>)
    /\ onClose
    /\ UNCHANGED <<isRunning, currentPosition, userLocationSet, utterance,
                   arrivals, autoEnabledOnce>>
    /\ UNCHANGED pipelineVars

\* handleEndNavigation: arrivalSpokenRef.current = true, speak, onClose
handleEndNavigation ==
    /\ panelShown /\ pending = {}
    /\ LET calls == speak(voiceEnabled, EndedMsg)
       IN  /\ utterance' = Spoken(calls, utterance)
           /\ Observe("end", calls)
    /\ onClose
    /\ UNCHANGED <<isRunning, currentPosition, userLocationSet, arrivals, autoEnabledOnce>>
    /\ UNCHANGED pipelineVars

\* ----------------------------------------------------------------------
\* window.speechSynthesis finishes the utterance
\* ----------------------------------------------------------------------
UtteranceEnd ==
    /\ pending = {}
    /\ utterance # "none"
    /\ utterance' = "none"
    /\ UNCHANGED <<pageVars, panelVars, pending, inflight, observers>>
    /\ UNCHANGED pipelineVars

Next ==
    \/ \E loc \in Positions, sh \in Shapes \cup {NoShape} : StartRun(loc, sh)
    \/ StopRun
    \/ \E p \in Positions : PositionUpdate(p)
    \/ SetUserLocation
    \/ RunEffects
    \/ \E i \in 1..MaxInFlight, outcome \in Outcomes : RouteResponse(i, outcome)
    \/ handleNextStep
    \/ handlePreviousStep
    \/ \E index \in 0..(Len(steps) - 1) : selectStep(index)
    \/ speakNow
    \/ handleTestVoice
    \/ \E checked \in BOOLEAN : handleToggleVoice(checked)
    \/ toggleAutoAdvance
    \/ closePanel
    \/ handleEndNavigation
    \/ UtteranceEnd

Spec == Init /\ [][Next]_vars

\* ----------------------------------------------------------------------
\* Properties
\* ----------------------------------------------------------------------
\* the effects of a position update are due: the auto-advance effect runs next
AfterPosition == mounted /\ lastEvent = "position" /\ AUTO \in pending

\* the auto-advance effect will look at the end point of the current step
Tracking ==
    /\ autoAdvanceEnabled
    /\ HasStep(currentStep)
    /\ StepAt(currentStep).end # NoPoint

\* C1: with auto-advance on and the cursor on a step i that is not the last,
\* the effect run of a position update at most 25 m from the end point of
\* step i moves the cursor to i+1 and calls speak() once, with the
\* instruction of step i+1 (an utterance when voice is on); at more than
\* 25 m it leaves the cursor at i and calls speak() not at all.
C1_AutoAdvance ==
    [][ (AfterPosition /\ Tracking /\ currentStep < lastIndex)
        => IF calculateDistance(currentPosition, StepAt(currentStep).end) <= 25
           THEN /\ currentStep' = currentStep + 1
                /\ emitted' = << [text |-> StepAt(currentStep + 1).instruction,
                                  voiced |-> voiceEnabled] >>
           ELSE /\ currentStep' = currentStep
                /\ emitted' = << >> ]_vars

\* a position update at exactly 25 m has advanced the cursor and the new
\* step's instruction is being spoken
C1_Witness ==
    /\ mounted /\ lastEvent = "position" /\ advances = 1
    /\ currentStep >= 1 /\ HasStep(currentStep)
    /\ calculateDistance(currentPosition, StepAt(currentStep - 1).end) = 25
    /\ emitted = << [text |-> StepAt(currentStep).instruction, voiced |-> TRUE] >>
    /\ utterance = "narration"

\* C2: one position update advances the cursor by at most one step and
\* makes at most one narration, whatever the step list.
C2_OneAdvancePerUpdate ==
    lastEvent = "position" => (advances <= 1 /\ narrations <= 1)

\* C3: for one loaded step list the arrival message is narrated at most
\* once, and it is narrated with the cursor on the last step of that list,
\* where the cursor stays.
C3_ArrivalOnLastStep ==
    [][ /\ arrivals' <= 1
        /\ (pending # {} /\ emitted' # << >>
            /\ emitted'[Len(emitted')].text = <<"You have reached your destination">>)
           => (currentStep = Len(steps) - 1 /\ currentStep' = currentStep) ]_vars

AfterLoad == mounted /\ lastEvent = "response" /\ READY \in pending /\ steps # << >>

\* C5: while the panel is open the cursor never decreases, and when a new
\* step list is loaded it is reset to 0.  Stated here is the reset: the
\* effects that follow the load leave the cursor at 0 (or at 1, when the
\* position is within 25 m of the end of step 0 and auto-advance takes it
\* there at once).
C5_ResetOnLoad ==
    [][ AfterLoad => currentStep' \in {0, 1} ]_vars

\* C6: once the panel is closed no narration of its route is left speaking
\* or queued (the closing narration of End Navigation apart).
C6_NothingPendingAfterClose ==
    ~mounted => utterance # "narration"

\* C7 as stated: every control that closes a loaded panel calls speak() with
\* 'Navigation ended' (an utterance when voice is on) and unmounts the panel.
C7_EveryCloseNarrates ==
    [][ (panelShown /\ ~mounted')
        => emitted' = << [text |-> <<"Navigation ended">>, voiced |-> voiceEnabled] >> ]_vars

\* C7 as amended: End Navigation calls speak() with 'Navigation ended', which
\* is the pending utterance afterwards when voice is on, and unmounts the
\* panel; the close button of the header and of the error card unmount the
\* panel and say nothing, leaving the speech queue as it is.  Either way the
\* panel's state and its outstanding requests are gone.
C7_EndNavigationNarrates ==
    [][ (mounted /\ ~mounted')
        => /\ steps' = << >> /\ inflight' = << >> /\ pending' = {}
           /\ IF lastEvent' = "end"
              THEN /\ emitted' = << [text |-> <<"Navigation ended">>,
                                     voiced |-> voiceEnabled] >>
                   /\ voiceEnabled => utterance' = "closing"
              ELSE /\ emitted' = << >>
                   /\ utterance' = utterance ]_vars

\* End Navigation has closed the panel with voice on
C7_Witness ==
    /\ ~mounted /\ lastEvent = "end"
    /\ emitted = << [text |-> <<"Navigation ended">>, voiced |-> TRUE] >>
    /\ utterance = "closing"

\* C8: ticking Voice makes the utterance 'Voice enabled. <instruction of the
\* step at the cursor>', the step being that of the merged list.
C8_ToggleOnAnnounces ==
    (mounted /\ lastEvent = "voice" /\ voiceEnabled /\ HasStep(currentStep))
    => emitted = << [text |-> <<"Voice enabled. ">> \o StepAt(currentStep).instruction,
                     voiced |-> TRUE] >>

\* C9: when a step list is loaded and voice is on afterwards, the first
\* instruction is spoken as 'Start. <instruction>'; this includes the first
\* list of a panel, which turns voice on.
C9_StartNarrated ==
    [][ (AfterLoad /\ voiceEnabled')
        => (emitted' # << >>
            /\ emitted'[1] = [text |-> <<"Start. ">> \o steps[1].instruction,
                              voiced |-> TRUE]) ]_vars

\* C10 as stated: voice is auto-enabled once in the lifetime of the page.
C10_OncePerAppLifetime ==
    [][ (~voiceAutoEnabledRef /\ voiceAutoEnabledRef') => ~autoEnabledOnce ]_vars

\* C10 as amended: voice is auto-enabled once per mounted panel.  The
\* effects that follow the panel's first non-empty step list turn voice on;
\* after that no effect run of the panel changes voiceEnabled, so a later
\* step list does not turn voice back on once the user has turned it off.
C10_OncePerPanel ==
    [][ (mounted /\ pending # {})
        => IF voiceAutoEnabledRef
           THEN voiceEnabled' = voiceEnabled /\ voiceAutoEnabledRef'
           ELSE IF READY \in pending /\ steps # << >>
           THEN voiceEnabled' /\ voiceAutoEnabledRef'
           ELSE voiceEnabled' = voiceEnabled /\ ~voiceAutoEnabledRef' ]_vars

\* a later step list of the panel has been announced with voice left off
C10_Witness ==
    /\ mounted /\ pending = {} /\ lastEvent = "response"
    /\ voiceAutoEnabledRef /\ ~voiceEnabled
    /\ emitted # << >>
    /\ emitted[1] = [text |-> <<"Start. ">> \o steps[1].instruction, voiced |-> FALSE]

\* ----------------------------------------------------------------------
\* Distance-fitting search: findScaleForTargetDistance (unnamed/part_003)
\* and fitShapeToDistance (app/page.tsx).
\* Scale factors are fixed-point numbers with Unit = 1.0; distances are in
\* decimetres (Metre = 10).  A shape is represented by the geodesic length
\* of its path; scaling it about a centre by f multiplies that length by f.

MaxBase == 10
MaxTarget == 12
MaxStretch == 1

Unit == 10000
Metre == 10

BasePerimeters == {b * 100 * Metre : b \in 1..MaxBase}
Targets == {t * 100 * Metre : t \in 1..MaxTarget}
\* the resolver's routed distance is k times the geodesic length, k = stretch / 100
Stretches == {100 + 5 * k : k \in 0..MaxStretch}

Abs(x) == IF x < 0 THEN 0 - x ELSE x

\* scalePointsAround / scalePoints, on the length of the path
scaledLength(f, base) == (f * base) \div Unit

\* the straight line from the first to the last point of the base path: a
\* closed loop, or three sides of a square
Chords(base) == {0, base \div 3}

\* getShapeRoute(...).distance as the search reads it (a shape of one chunk):
\* the legs of the walking route while the provider answers; the sum of the
\* straight segments when the provider is not loaded; the straight line from
\* origin to destination when the request fails
shapeDistance(c, f) ==
    CASE c.provider = "up" -> (scaledLength(f, c.base) * c.stretch) \div 100
      [] c.provider = "notLoaded" -> scaledLength(f, c.base)
      [] c.provider = "failing" -> scaledLength(f, c.chord)

\* the evaluations so far that were answered by a straight-line fallback
fallbacksAfter(c, n) == IF c.provider = "up" THEN c.fallbacks ELSE c.fallbacks + n

\* res?.distance || 0   and   baseRes?.distance || 1
orZero(d) == d
orOne(d) == IF d = 0 THEN Metre ELSE d

minFactor == Unit \div 5
maxFactor == 5 * Unit
fitLo == Unit \div 20
fitHi == 10 * Unit
bisections == 7
widenings == 3

\* Math.max(0.2, f): the lower clamp of the guess and of the bracket
atLeastMinUnclamped(f) == f
atLeastMin(f) == Max(minFactor, f)
\* Math.min(5, f)
atMostMax(f) == Min(maxFactor, f)

\* Math.max(10, target * 0.005)   and   Math.max(10, targetMeters * 0.01)
findScaleTolerance(target) == Max(10 * Metre, (target * 5) \div 1000)
fitShapeTolerance(target) == Max(10 * Metre, target \div 100)

StartFit(op, base, chord, stretch, target, provider) ==
    [op |-> op, pc |-> "base", base |-> base, chord |-> chord, stretch |-> stretch,
     target |-> target, provider |-> provider, fallbacks |-> 0,
     baseDistance |-> 0, f0 |-> 0,
     lo |-> 0, hi |-> 0, loDist |-> 0, hiDist |-> 0,
     f |-> 0, dist |-> 0, pts |-> "none",
     i |-> 0, w |-> 0, calls |-> 0, result |-> "pending",
     errors |-> {}]

\* the absolute errors of the trials evaluated so far, after a trial that
\* routed to distance d
trialErrors(c, d) == c.errors \cup {Abs(d - c.target)}

InitFit ==
    /\ PageInit
    /\ \E op \in {"findScale", "fitShape"}, b \in BasePerimeters, k \in Stretches,
          t \in Targets, provider \in {"up", "notLoaded"} :
          \E chord \in Chords(b) :
              fit = StartFit(op, b, chord, k, t, provider)
    /\ resolution = NoCall
    /\ corrector = NoCall
    /\ reduction = NoCall

\* what a step of the search leaves alone
fitFrame == <<narrationVars, resolution, corrector, reduction>>

\* the bracket holds the target between its two evaluations
between(c) ==
    \/ c.loDist <= c.target /\ c.hiDist >= c.target
    \/ c.loDist >= c.target /\ c.hiDist <= c.target

\* part_003:867-876  base route, initial guess and bracket
FindScaleBase ==
    /\ fit.op = "findScale" /\ fit.pc = "base"
    /\ LET baseDistance == Max(Metre, orZero(shapeDistance(fit, Unit)))
           initialFactor == atMostMax(atLeastMin((fit.target * Unit) \div baseDistance))
       IN fit' = [fit EXCEPT !.pc = "bracket",
                             !.baseDistance = baseDistance,
                             !.f0 = initialFactor,
                             !.lo = atLeastMin(initialFactor \div 2),
                             !.hi = atMostMax((initialFactor * 3) \div 2),
                             !.fallbacks = fallbacksAfter(fit, 1),
                             !.calls = @ + 1]
    /\ UNCHANGED fitFrame

\* part_003:883-884  evaluate both ends
FindScaleBracket ==
    /\ fit.op = "findScale" /\ fit.pc = "bracket"
    /\ fit' = [fit EXCEPT !.pc = "widen",
                          !.loDist = orZero(shapeDistance(fit, fit.lo)),
                          !.hiDist = orZero(shapeDistance(fit, fit.hi)),
                          !.errors = trialErrors(fit, orZero(shapeDistance(fit, fit.lo)))
                                     \cup trialErrors(fit, orZero(shapeDistance(fit, fit.hi))),
                          !.fallbacks = fallbacksAfter(fit, 2),
                          !.calls = @ + 2]
    /\ UNCHANGED fitFrame

\* part_003:887-892  one round of the widening loop
FindScaleWiden ==
    /\ fit.op = "findScale" /\ fit.pc = "widen"
    /\ fit.w < widenings /\ ~between(fit)
    /\ LET lo == atLeastMin(fit.lo \div 2)
           hi == atMostMax((fit.hi * 3) \div 2)
       IN fit' = [fit EXCEPT !.lo = lo, !.hi = hi,
                             !.loDist = orZero(shapeDistance(fit, lo)),
                             !.hiDist = orZero(shapeDistance(fit, hi)),
                             !.errors = trialErrors(fit, orZero(shapeDistance(fit, lo)))
                                        \cup trialErrors(fit, orZero(shapeDistance(fit, hi))),
                             !.w = @ + 1,
                             !.fallbacks = fallbacksAfter(fit, 2),
                             !.calls = @ + 2]
    /\ UNCHANGED fitFrame

\* part_003:895  the closer bracket end is the first best
FindScaleBest ==
    /\ fit.op = "findScale" /\ fit.pc = "widen"
    /\ fit.w >= widenings \/ between(fit)
    /\ fit' = IF Abs(fit.loDist - fit.target) <= Abs(fit.hiDist - fit.target)
              THEN [fit EXCEPT !.pc = "bisect", !.f = fit.lo, !.dist = fit.loDist, !.pts = "scaled"]
              ELSE [fit EXCEPT !.pc = "bisect", !.f = fit.hi, !.dist = fit.hiDist, !.pts = "scaled"]
    /\ UNCHANGED fitFrame

\* the best after an evaluation of factor mid with distance d (strict improvement only)
better(c, mid, d) ==
    IF Abs(d - c.target) < Abs(c.dist - c.target)
    THEN [c EXCEPT !.f = mid, !.dist = d, !.pts = "scaled"]
    ELSE c

\* the loop ends on the tolerance test or when the budget is used
endOfRound(c, tolerance) ==
    IF Abs(c.dist - c.target) <= tolerance \/ c.i + 1 >= bisections
    THEN [c EXCEPT !.i = @ + 1, !.pc = "done", !.result = "points"]
    ELSE [c EXCEPT !.i = @ + 1]

\* part_003:896-915  one bisection round, then the return of line 917
FindScaleBisect ==
    /\ fit.op = "findScale" /\ fit.pc = "bisect"
    /\ LET mid == (fit.lo + fit.hi) \div 2
           d == orZero(shapeDistance(fit, mid))
           b == better([fit EXCEPT !.calls = @ + 1, !.fallbacks = fallbacksAfter(fit, 1),
                                   !.errors = trialErrors(fit, d)], mid, d)
           loBelow == fit.loDist < fit.target
           midBelow == d < fit.target
           n == IF loBelow # midBelow
                THEN [b EXCEPT !.hi = mid, !.hiDist = d]
                ELSE [b EXCEPT !.lo = mid, !.loDist = d]
       IN fit' = endOfRound(n, findScaleTolerance(fit.target))
    /\ UNCHANGED fitFrame

\* page.tsx:346-350  base route, fixed bracket, the base shape as first best
FitShapeBase ==
    /\ fit.op = "fitShape" /\ fit.pc = "base"
    /\ LET baseDist == Max(Metre, orOne(shapeDistance(fit, Unit)))
       IN fit' = [fit EXCEPT !.pc = "bisect",
                             !.baseDistance = baseDist,
                             !.f0 = (fit.target * Unit) \div baseDist,
                             !.lo = fitLo, !.hi = fitHi,
                             !.f = (fit.target * Unit) \div baseDist,
                             !.dist = baseDist, !.pts = "base",
                             !.fallbacks = fallbacksAfter(fit, 1),
                             !.calls = @ + 1]
    /\ UNCHANGED fitFrame

\* page.tsx:351-361  one bisection round, then the return of line 362
FitShapeBisect ==
    /\ fit.op = "fitShape" /\ fit.pc = "bisect"
    /\ LET mid == (fit.lo + fit.hi) \div 2
           d == orZero(shapeDistance(fit, mid))
           b == better([fit EXCEPT !.calls = @ + 1, !.fallbacks = fallbacksAfter(fit, 1),
                                   !.errors = trialErrors(fit, d)], mid, d)
           n == IF d < fit.target
                THEN [b EXCEPT !.lo = mid, !.loDist = d]
                ELSE [b EXCEPT !.hi = mid, !.hiDist = d]
       IN fit' = endOfRound(n, fitShapeTolerance(fit.target))
    /\ UNCHANGED fitFrame

\* an exception that escapes the function
FitRethrow ==
    /\ fit.pc # "done"
    /\ fit' = [fit EXCEPT !.pc = "done", !.result = "thrown"]
    /\ UNCHANGED fitFrame

\* an exception inside the try block: part_003:918-921 returns null (the
\* caller then uses shape.points), page.tsx:363-365 returns base
FitCatch ==
    /\ fit.pc # "done"
    /\ fit' = [fit EXCEPT !.pc = "done",
                          !.result = IF fit.op = "findScale" THEN "null" ELSE "base"]
    /\ UNCHANGED fitFrame

\* the provider stops answering: from here on every request of
\* getShapeRoute fails and is replaced by its straight segment
\* (googleMapsRouting.ts:262-268)
ProviderUnreachable ==
    /\ fit.pc # "done"
    /\ fit.provider = "up"
    /\ fit' = [fit EXCEPT !.provider = "failing"]
    /\ UNCHANGED fitFrame

NextFit ==
    \/ FindScaleBase
    \/ FindScaleBracket
    \/ FindScaleWiden
    \/ FindScaleBest
    \/ FindScaleBisect
    \/ FitShapeBase
    \/ FitShapeBisect
    \/ FitCatch
    \/ ProviderUnreachable

SpecFit == InitFit /\ [][NextFit]_vars

\* ----------------------------------------------------------------------
\* Properties of the distance-fitting search (checked under SpecFit)

\* the search has returned a best estimate (no exception was caught)
Returned(c) == c.pc = "done" /\ c.result = "points"

\* some factor of the search's own range routes to the target
reachable(c) ==
    IF c.op = "findScale"
    THEN shapeDistance(c, minFactor) <= c.target /\ c.target <= shapeDistance(c, maxFactor)
    ELSE shapeDistance(c, fitLo) <= c.target /\ c.target <= shapeDistance(c, fitHi)

\* C11: with a resolver whose distance is linear in the factor (the provider
\* answers every evaluation, distance = k * factor * base), the search returns
\* points whose routed distance is within max(10 m, 0.5% of target) of the
\* target, for every target that a factor of its range can reach.
C11_FitConverges ==
    (Returned(fit) /\ fit.provider = "up" /\ reachable(fit))
        => Abs(fit.dist - fit.target) <= findScaleTolerance(fit.target)

\* the search has resolved the base shape and fixed its bracket
Bracketed(c) == c.calls > 0

\* C12 as claimed: every factor of either search (guess, bracket ends,
\* midpoints, returned factor) lies in [0.2, 5] and lo <= hi.
C12_FactorsBounded ==
    Bracketed(fit) =>
        /\ minFactor <= fit.lo /\ fit.lo <= fit.hi /\ fit.hi <= maxFactor
        /\ minFactor <= fit.f0 /\ fit.f0 <= maxFactor
        /\ fit.pts = "scaled" => (minFactor <= fit.f /\ fit.f <= maxFactor)

\* C12 (amended): findScaleForTargetDistance keeps its guess, its bracket
\* ends (every evaluated factor is or becomes one) and the factor of its best
\* in [0.2, 5]; fitShapeToDistance keeps its bracket and the factor of the
\* scaled points it returns in [0.05, 10]; lo <= hi holds throughout both.
C12_FactorsInOwnRange ==
    Bracketed(fit) =>
        /\ fit.lo <= fit.hi
        /\ fit.op = "findScale" =>
              /\ minFactor <= fit.lo /\ fit.hi <= maxFactor
              /\ minFactor <= fit.f0 /\ fit.f0 <= maxFactor
              /\ fit.pts = "scaled" => (minFactor <= fit.f /\ fit.f <= maxFactor)
        /\ fit.op = "fitShape" =>
              /\ fitLo <= fit.lo /\ fit.hi <= fitHi
              /\ fit.pts = "scaled" => (fitLo < fit.f /\ fit.f < fitHi)

\* a findScale call that widened its bracket three times and used all its
\* bisection rounds has returned
C12_Witness ==
    /\ fit.op = "findScale" /\ Returned(fit)
    /\ fit.w = widenings /\ fit.i = bisections

\* the points the caller ends up with are the unscaled base points
BasePointsUsed(c) ==
    \/ c.result \in {"null", "base"}
    \/ c.result = "points" /\ c.pts = "base"

\* C13 as claimed: the search does not throw, and when an evaluation found
\* the provider unreachable it returns the base (unscaled) points.
C13_UnreachableReturnsBase ==
    fit.pc = "done" =>
        /\ fit.result # "thrown"
        /\ fit.fallbacks > 0 => BasePointsUsed(fit)

\* C13 (amended): the search does not throw: a caught exception makes
\* findScaleForTargetDistance return null and fitShapeToDistance return the
\* base points.  An unreachable provider is no exception to the search: the
\* resolver answers with a straight-line distance, the search runs on, and
\* findScaleForTargetDistance returns scaled points with the distance that
\* was evaluated for them; fitShapeToDistance returns its best, which is
\* the base points with the base distance or scaled points.
C13_NeverThrows ==
    fit.pc = "done" =>
        /\ fit.result \in {"points", "null", "base"}
        /\ fit.result = "null" => fit.op = "findScale"
        /\ fit.result = "base" => fit.op = "fitShape"
        /\ fit.result = "points" =>
              /\ fit.op = "findScale" =>
                    /\ fit.pts = "scaled"
                    /\ minFactor <= fit.f /\ fit.f <= maxFactor
              /\ fit.op = "fitShape" /\ fit.pts = "base" => fit.dist = fit.baseDistance

\* a findScale call whose every evaluation was answered by the fallback
\* has returned scaled points
C13_Witness ==
    /\ fit.op = "findScale" /\ Returned(fit)
    /\ fit.fallbacks = fit.calls /\ fit.pts = "scaled"

\* ----------------------------------------------------------------------
\* Route resolver: getShapeRoute and getDetailedRouteInfo
\* (lib/googleMapsRouting.ts).  Points lie on a line and are given by their
\* position in metres, so the geodesic distance of two points is the
\* absolute difference; a point of the resolver's ordered list is named by
\* its index in that list.

MaxPoints == 50
MaxShort == 4

spacing == 30
minDistanceMeters == 8
closedThreshold == 25
maxWaypointsPerRequest == 20

\* input lists: evenly spaced points that all survive de-duplication, and
\* short lists with close, repeated and returning points
SpacedPoints == {[i \in 1..n |-> (i - 1) * spacing] : n \in 0..MaxPoints}
ShortPoints == UNION {[1..n -> {0, 5, 10, 40}] : n \in 2..MaxShort}
InputPoints == SpacedPoints \cup ShortPoints

calculateHaversineDistance(a, b) == Abs(a - b)

Last(q) == q[Len(q)]

\* the points of a list at the given indices
pick(points, kept) == [k \in 1..Len(kept) |-> points[kept[k]]]
everyIndex(points) == [k \in 1..Len(points) |-> k]

\* the loop of dedupeSequentialPoints over the interior points i..Len-1;
\* deduped holds the indices of the points kept so far
RECURSIVE dedupeInterior(_, _, _, _)
dedupeInterior(points, i, deduped, min) ==
    IF i > Len(points) - 1 THEN deduped
    ELSE IF calculateHaversineDistance(points[Last(deduped)], points[i]) >= min
         THEN dedupeInterior(points, i + 1, Append(deduped, i), min)
         ELSE dedupeInterior(points, i + 1, deduped, min)

\* the indices of the points that dedupeSequentialPoints returns
dedupeKept(points, min) ==
    IF Len(points) <= 1 THEN everyIndex(points)
    ELSE Append(dedupeInterior(points, 2, <<1>>, min), Len(points))

dedupeSequentialPoints(points, min) == pick(points, dedupeKept(points, min))

isClosedShape(points) ==
    /\ Len(points) >= 3
    /\ calculateHaversineDistance(points[1], Last(points)) <= closedThreshold

\* the input taken as it is
orderPointsAsGiven(points) == points
\* lines 199-206: de-duplicate, then make a nearly closed shape end on its first point
orderPoints(points) ==
    LET orderedPoints == dedupeSequentialPoints(points, minDistanceMeters)
    IN IF isClosedShape(orderedPoints)
          /\ calculateHaversineDistance(orderedPoints[1], Last(orderedPoints)) > 0
       THEN Append(SubSeq(orderedPoints, 1, Len(orderedPoints) - 1), orderedPoints[1])
       ELSE orderedPoints

\* origin + waypoints + destination
maxPointsPerRequestNoEnds(maxWaypoints) == Max(2, Min(25, maxWaypoints))
maxPointsPerRequest(maxWaypoints) == Max(2, Min(25, maxWaypoints + 2))

\* a loop whose next chunk starts after the last point of the chunk before
RECURSIVE chunksFromNextPoint(_, _, _)
chunksFromNextPoint(n, i, maxWaypoints) ==
    IF i > n THEN << >>
    ELSE LET last == Min(i + maxPointsPerRequest(maxWaypoints) - 1, n)
         IN <<[k \in 1..(last - i + 1) |-> i + k - 1]>> \o chunksFromNextPoint(n, last + 1, maxWaypoints)

\* the while loop of buildPointChunks from index i (chunks of indices)
RECURSIVE chunksFrom(_, _, _)
chunksFrom(n, i, maxWaypoints) ==
    IF i >= n THEN << >>
    ELSE LET last == Min(i + maxPointsPerRequest(maxWaypoints) - 1, n)
         IN <<[k \in 1..(last - i + 1) |-> i + k - 1]>> \o chunksFrom(n, last, maxWaypoints)

\* buildPointChunks on a list of n points: each chunk is a list of indices
buildPointChunks(n, maxWaypoints) ==
    IF n <= 2 THEN <<[k \in 1..n |-> k]>> ELSE chunksFrom(n, 1, maxWaypoints)

\* sum of the straight segments of the sub-path a..b of points
RECURSIVE pathLength(_, _, _)
pathLength(points, a, b) ==
    IF a >= b THEN 0
    ELSE calculateHaversineDistance(points[a], points[a + 1]) + pathLength(points, a + 1, b)

\* distance / 1.4, in seconds
walkingDuration(distance) == (distance * 10) \div 14

\* what the provider reports for a route through the points a..b
legDistance(points, a, b) == (pathLength(points, a, b) * 105) \div 100
legDuration(points, a, b) == (legDistance(points, a, b) * 10) \div 13

\* a request that lets the provider stop at and reorder the waypoints
requestOptimized(segment, optimizeWaypoints) ==
    [origin |-> segment[1],
     destination |-> Last(segment),
     waypoints |-> [k \in 1..(Len(segment) - 2) |-> [location |-> segment[k + 1], stopover |-> TRUE]],
     optimizeWaypoints |-> "true"]

\* directionsService.route({...}) as issued for a chunk
request(segment, optimizeWaypoints) ==
    [origin |-> segment[1],
     destination |-> Last(segment),
     waypoints |-> [k \in 1..(Len(segment) - 2) |-> [location |-> segment[k + 1], stopover |-> FALSE]],
     optimizeWaypoints |-> optimizeWaypoints]

StartResolution(op, points, loaded) ==
    [op |-> op, pc |-> "start", input |-> points, loaded |-> loaded,
     ordered |-> << >>, chunks |-> << >>, c |-> 1,
     requests |-> << >>, parts |-> << >>, stitched |-> << >>,
     distance |-> 0, duration |-> 0, steps |-> << >>, result |-> "pending"]

InitResolve ==
    /\ PageInit
    /\ fit = NoCall
    /\ \E op \in {"getShapeRoute", "getDetailedRouteInfo"}, points \in InputPoints, loaded \in BOOLEAN :
          resolution = StartResolution(op, points, loaded)
    /\ corrector = NoCall
    /\ reduction = NoCall

resolveFrame == <<narrationVars, fit, corrector, reduction>>

\* googleMapsRouting.ts:196-224  guard, ordering, the not-loaded fallback, chunking
GetShapeRouteStart ==
    /\ resolution.op = "getShapeRoute" /\ resolution.pc = "start"
    /\ LET r == resolution
           orderedPoints == orderPoints(r.input)
           totalDistance == pathLength(orderedPoints, 1, Len(orderedPoints))
       IN resolution' =
            IF Len(r.input) < 2
            THEN [r EXCEPT !.pc = "done", !.result = "null"]
            ELSE IF ~r.loaded
            THEN [r EXCEPT !.pc = "done", !.result = "route",
                           !.ordered = orderedPoints,
                           !.distance = totalDistance,
                           !.duration = walkingDuration(totalDistance),
                           !.stitched = [k \in 1..Len(orderedPoints) |-> k]]
            ELSE [r EXCEPT !.pc = "chunk",
                           !.ordered = orderedPoints,
                           !.chunks = buildPointChunks(Len(orderedPoints), maxWaypointsPerRequest)]
    /\ UNCHANGED resolveFrame

\* the contribution of chunk c of getShapeRoute for an outcome of its request
shapePart(r, outcome) ==
    LET segment == r.chunks[r.c]
        origin == segment[1]
        destination == Last(segment)
        straight == calculateHaversineDistance(r.ordered[origin], r.ordered[destination])
    IN CASE outcome = "path" ->
              [kind |-> outcome,
               distance |-> legDistance(r.ordered, origin, destination),
               duration |-> legDuration(r.ordered, origin, destination),
               path |-> IF r.c = 1 THEN segment ELSE SubSeq(segment, 2, Len(segment))]
         [] outcome = "noPath" ->
              [kind |-> outcome,
               distance |-> legDistance(r.ordered, origin, destination),
               duration |-> legDuration(r.ordered, origin, destination),
               path |-> IF r.c = 1 THEN <<origin, destination>> ELSE <<destination>>]
         [] outcome = "failed" ->
              [kind |-> outcome,
               distance |-> straight,
               duration |-> walkingDuration(straight),
               path |-> IF r.c = 1 THEN <<origin, destination>> ELSE <<destination>>]

\* lines 276-280: the return after the last chunk
finishShapeRoute(r) ==
    IF r.c > Len(r.chunks)
    THEN [r EXCEPT !.pc = "done", !.result = "route",
                   !.stitched = IF Len(r.stitched) > 1 THEN r.stitched
                                ELSE [k \in 1..Len(r.ordered) |-> k]]
    ELSE r

\* googleMapsRouting.ts:230-274  one round of the chunk loop
GetShapeRouteChunk(outcome) ==
    /\ resolution.op = "getShapeRoute" /\ resolution.pc = "chunk"
    /\ resolution.c <= Len(resolution.chunks)
    /\ LET r == resolution
           part == shapePart(r, outcome)
       IN resolution' = finishShapeRoute(
            [r EXCEPT !.requests = Append(@, request(r.chunks[r.c], "false")),
                      !.parts = Append(@, part),
                      !.distance = @ + part.distance,
                      !.duration = @ + part.duration,
                      !.stitched = @ \o part.path,
                      !.c = @ + 1])
    /\ UNCHANGED resolveFrame

\* googleMapsRouting.ts:285-295, 321  guard, ordering, chunking
GetDetailedRouteInfoStart ==
    /\ resolution.op = "getDetailedRouteInfo" /\ resolution.pc = "start"
    /\ LET r == resolution
           orderedPoints == orderPoints(r.input)
       IN resolution' =
            IF ~r.loaded \/ Len(r.input) < 2
            THEN [r EXCEPT !.pc = "done", !.result = "null"]
            ELSE [r EXCEPT !.pc = "chunk",
                           !.ordered = orderedPoints,
                           !.chunks = buildPointChunks(Len(orderedPoints), maxWaypointsPerRequest)]
    /\ UNCHANGED resolveFrame

\* googleMapsRouting.ts:298-318 (two points: one request without waypoint
\* options) and 326-365 (one round of the chunk loop); a request that fails
\* throws to the catch of lines 372-375
GetDetailedRouteInfoChunk(outcome) ==
    /\ resolution.op = "getDetailedRouteInfo" /\ resolution.pc = "chunk"
    /\ resolution.c <= Len(resolution.chunks)
    /\ LET r == resolution
           segment == r.chunks[r.c]
           issued == Append(r.requests,
                            request(segment, IF Len(r.ordered) = 2 THEN "unset" ELSE "false"))
       IN resolution' =
            IF outcome = "failed"
            THEN [r EXCEPT !.requests = issued, !.pc = "done", !.result = "null"]
            ELSE LET n == [r EXCEPT !.requests = issued,
                                    !.parts = Append(@, [kind |-> outcome,
                                                         distance |-> legDistance(r.ordered, segment[1], Last(segment)),
                                                         duration |-> legDuration(r.ordered, segment[1], Last(segment)),
                                                         path |-> << >>]),
                                    !.distance = @ + legDistance(r.ordered, segment[1], Last(segment)),
                                    !.duration = @ + legDuration(r.ordered, segment[1], Last(segment)),
                                    !.steps = Append(@, r.c),
                                    !.c = @ + 1]
                 IN IF n.c > Len(n.chunks)
                    THEN [n EXCEPT !.pc = "done", !.result = "info"]
                    ELSE n
    /\ UNCHANGED resolveFrame

NextResolve ==
    \/ GetShapeRouteStart
    \/ \E outcome \in {"path", "noPath", "failed"} : GetShapeRouteChunk(outcome)
    \/ GetDetailedRouteInfoStart
    \/ \E outcome \in {"path", "failed"} : GetDetailedRouteInfoChunk(outcome)

SpecResolve == InitResolve /\ [][NextResolve]_vars

\* ----------------------------------------------------------------------
\* Properties of the route resolver (checked under SpecResolve)

ceilDiv(a, b) == (a + b - 1) \div b

\* getShapeRoute went through its chunk loop and returned
Routed(r) == r.op = "getShapeRoute" /\ r.pc = "done" /\ r.result = "route" /\ r.loaded

\* a sequence of indices that only goes forward
Increasing(q) == \A k \in 1..(Len(q) - 1) : q[k] < q[k + 1]

\* C14 as claimed: for n >= 3 ordered points and a waypoint limit of 20 the
\* resolver issues exactly ceil((n-2)/20) requests, and the stitched path
\* repeats no point at a join.
C14_RequestsAsClaimed ==
    (Routed(resolution) /\ Len(resolution.ordered) >= 3) =>
        /\ Len(resolution.requests) = ceilDiv(Len(resolution.ordered) - 2, maxWaypointsPerRequest)
        /\ Increasing(resolution.stitched)

\* C14 (amended): for n >= 2 ordered points the resolver issues exactly
\* ceil((n-1)/21) requests (3 for n = 50): a chunk holds up to 22 points and
\* starts on the last point of the chunk before it.  The stitched path
\* repeats no point at a join, and when every request returns a path it is
\* the ordered list itself.
C14_RequestsPerChunk ==
    Routed(resolution) =>
        /\ Len(resolution.requests) = ceilDiv(Len(resolution.ordered) - 1, maxWaypointsPerRequest + 1)
        /\ Len(resolution.ordered) = 50 => Len(resolution.requests) = 3
        /\ Increasing(resolution.stitched)
        /\ (\A k \in 1..Len(resolution.parts) : resolution.parts[k].kind = "path")
              => resolution.stitched = [k \in 1..Len(resolution.ordered) |-> k]

\* 43 points were resolved with two requests
C14_Witness ==
    /\ Routed(resolution)
    /\ Len(resolution.ordered) = 43 /\ Len(resolution.requests) = 2

\* the straight line between the ends of chunk k
straightOf(r, k) ==
    calculateHaversineDistance(r.ordered[r.chunks[k][1]], r.ordered[Last(r.chunks[k])])

\* C15: when the request of a chunk fails the resolution is not aborted: the
\* call (getShapeRoute or getDetailedRouteInfo) returns a result that covers
\* every chunk, every chunk was requested, and a failed chunk contributes the
\* straight segment between its ends with duration = distance / 1.4.
C15_ChunkFailureNotAborting ==
    (resolution.pc = "done" /\ resolution.loaded /\ Len(resolution.input) >= 2) =>
        /\ resolution.result # "null"
        /\ Len(resolution.requests) = Len(resolution.chunks)
        /\ Len(resolution.parts) = Len(resolution.chunks)
        /\ \A k \in 1..Len(resolution.parts) :
              resolution.parts[k].kind = "failed" =>
                  /\ resolution.parts[k].distance = straightOf(resolution, k)
                  /\ resolution.parts[k].duration = walkingDuration(straightOf(resolution, k))

\* getShapeRoute returned without a provider
NotLoaded(r) == r.op = "getShapeRoute" /\ r.pc = "done" /\ ~r.loaded

\* C16 as claimed: without a provider, for at least 2 points, no request is
\* issued and the result is the straight-line path through all consecutive
\* input points, with the sum of their segments as distance and
\* duration = distance / 1.4; fewer than 2 points give no result.
C16_ThroughAllInputPoints ==
    NotLoaded(resolution) =>
        /\ resolution.requests = << >>
        /\ Len(resolution.input) < 2 => resolution.result = "null"
        /\ Len(resolution.input) >= 2 =>
              /\ resolution.result = "route"
              /\ resolution.ordered = resolution.input
              /\ resolution.distance = pathLength(resolution.input, 1, Len(resolution.input))
              /\ resolution.duration = walkingDuration(resolution.distance)

\* C16 (amended): without a provider, for at least 2 points, no request is
\* issued and the result is the straight-line path through the ordered
\* points: the input's first point, the interior points that are at least
\* 8 m from the point kept before them, and the input's last point, which
\* is replaced by the first point when the two are within 25 m (3 points
\* or more); distance is the sum of that path's segments and
\* duration = distance / 1.4.  Fewer than 2 points give no result.
C16_NotLoadedStraightLine ==
    NotLoaded(resolution) =>
        /\ resolution.requests = << >>
        /\ Len(resolution.input) < 2 => resolution.result = "null"
        /\ Len(resolution.input) >= 2 =>
              LET r == resolution
                  n == Len(r.ordered)
              IN /\ r.result = "route"
                 /\ r.stitched = [k \in 1..n |-> k]
                 /\ n >= 2 /\ n <= Len(r.input)
                 /\ r.ordered[1] = r.input[1]
                 /\ \A k \in 1..(n - 2) :
                        calculateHaversineDistance(r.ordered[k], r.ordered[k + 1]) >= minDistanceMeters
                 /\ r.ordered[n] = IF n >= 3 /\ calculateHaversineDistance(r.input[1], Last(r.input)) <= closedThreshold
                                   THEN r.input[1] ELSE Last(r.input)
                 /\ r.distance = pathLength(r.ordered, 1, n)
                 /\ r.duration = walkingDuration(r.distance)

\* a list with a point closer than 8 m to its predecessor was resolved
\* without a provider
C16_Witness ==
    /\ NotLoaded(resolution) /\ resolution.result = "route"
    /\ Len(resolution.ordered) < Len(resolution.input)

\* request k asks for chunk k: its ends, and its interior points in input
\* order as waypoints that are no stopovers, with no reordering asked for
InOrderRequest(r, k) ==
    LET q == r.requests[k]
        segment == r.chunks[k]
    IN /\ q.origin = segment[1]
       /\ q.destination = Last(segment)
       /\ q.optimizeWaypoints \in {"false", "unset"}
       /\ Len(q.waypoints) = q.destination - q.origin - 1
       /\ \A w \in 1..Len(q.waypoints) :
              /\ q.waypoints[w].location = q.origin + w
              /\ q.waypoints[w].stopover = FALSE
       /\ k > 1 => q.origin = r.requests[k - 1].destination

\* the sub-path of chunk k lies between the ends of chunk k
InOrderPart(r, k) ==
    \A j \in 1..Len(r.parts[k].path) :
        /\ r.chunks[k][1] <= r.parts[k].path[j]
        /\ r.parts[k].path[j] <= Last(r.chunks[k])

RECURSIVE concatPaths(_, _)
concatPaths(parts, k) ==
    IF k > Len(parts) THEN << >> ELSE parts[k].path \o concatPaths(parts, k + 1)

\* C17: the path returned by the resolver is the chunks' sub-paths in input
\* order, also when chunks fall back to straight segments, and every request
\* issued (by getShapeRoute and by getDetailedRouteInfo) asks for the chunk's
\* interior points in input order as non-stopover waypoints, with waypoint
\* optimisation not switched on.
C17_InputOrderKept ==
    /\ \A k \in 1..Len(resolution.requests) : InOrderRequest(resolution, k)
    /\ Routed(resolution) =>
          /\ resolution.stitched = concatPaths(resolution.parts, 1)
          /\ \A k \in 1..Len(resolution.parts) : InOrderPart(resolution, k)
          /\ Increasing(resolution.stitched)
          /\ resolution.stitched[1] = 1
          /\ Last(resolution.stitched) = Len(resolution.ordered)

\* three chunks were resolved, the middle one by its straight segment
C17_Witness ==
    /\ Routed(resolution)
    /\ Len(resolution.parts) = 3
    /\ resolution.parts[1].kind = "path"
    /\ resolution.parts[2].kind = "failed"
    /\ resolution.parts[3].kind = "path"

\* ----------------------------------------------------------------------
\* Land-placement and minimum-size correction: shiftShapeToLand and
\* scaleShapeIfNeeded (unnamed/part_003), as composed by
\* getGoogleMapsRoutePolylines.  Points lie on a line through the user
\* location, which is at 0; positions are whole metres.

MaxLandPoints == 3
MaxRounds == 2

oceanDistance == 1000
minSize == 50
NaN == 999999

\* even positions, so that the centre of the bounding box is a whole metre
LandPositions == {-2000, -10, 0, 10, 20, 40, 600, 990, 1010, 2000}
LandInputs == UNION {[1..n -> LandPositions] : n \in 0..MaxLandPoints}

userLocation == 0

RECURSIVE sumOf(_, _)
sumOf(points, k) == IF k > Len(points) THEN 0 ELSE points[k] + sumOf(points, k + 1)

minOf(points) == CHOOSE x \in {points[k] : k \in 1..Len(points)} : \A k \in 1..Len(points) : x <= points[k]
maxOf(points) == CHOOSE x \in {points[k] : k \in 1..Len(points)} : \A k \in 1..Len(points) : x >= points[k]

hasNaN(points) == \E k \in 1..Len(points) : points[k] = NaN

\* a comparison with NaN is false
isLikelyInOcean(point) ==
    point # NaN /\ calculateHaversineDistance(point, userLocation) > oceanDistance

anyInOcean(points) == \E k \in 1..Len(points) : isLikelyInOcean(points[k])

\* 30% of the way from the centre of the points to the user
landShift(points) ==
    LET center == sumOf(points, 1) \div Len(points)
    IN ((userLocation - center) * 3) \div 10

\* a shift that is applied whether or not a point is flagged
shiftShapeToLandAlways(points) ==
    IF Len(points) = 0 THEN points
    ELSE IF hasNaN(points) THEN [k \in 1..Len(points) |-> NaN]
    ELSE [k \in 1..Len(points) |-> points[k] + landShift(points)]

shiftShapeToLand(points) ==
    IF Len(points) = 0 \/ ~anyInOcean(points) THEN points
    ELSE IF hasNaN(points) THEN [k \in 1..Len(points) |-> NaN]
    ELSE [k \in 1..Len(points) |-> points[k] + landShift(points)]

\* on a line the largest distance between two points is the extent of the
\* list; with a NaN among the points Math.max gives NaN, and NaN < 50 is false;
\* an extent of 0 gives the factor Infinity and 0 * Infinity = NaN
scaleShapeIfNeeded(points) ==
    IF Len(points) < 2 \/ hasNaN(points) THEN points
    ELSE LET center == (minOf(points) + maxOf(points)) \div 2
             maxDistance == maxOf(points) - minOf(points)
         IN IF maxDistance >= minSize THEN points
            ELSE IF maxDistance = 0 THEN [k \in 1..Len(points) |-> NaN]
            ELSE [k \in 1..Len(points) |-> center + ((points[k] - center) * minSize) \div maxDistance]

InitLand ==
    /\ PageInit
    /\ fit = NoCall
    /\ resolution = NoCall
    /\ \E points \in LandInputs :
          corrector = [pc |-> "shift", round |-> 0, input |-> points,
                       points |-> points, outputs |-> << >>]
    /\ reduction = NoCall

landFrame == <<narrationVars, fit, resolution, reduction>>

\* part_003:1127  step 1 of a correction
ShiftShapeToLand ==
    /\ corrector.pc = "shift"
    /\ corrector.round < MaxRounds
    /\ corrector' = [corrector EXCEPT !.pc = "scale",
                                      !.points = shiftShapeToLand(corrector.points)]
    /\ UNCHANGED landFrame

\* part_003:1130  step 2 of a correction; its output is the next input
ScaleShapeIfNeeded ==
    /\ corrector.pc = "scale"
    /\ LET scaledPoints == scaleShapeIfNeeded(corrector.points)
       IN corrector' = [corrector EXCEPT !.pc = "shift",
                                         !.round = @ + 1,
                                         !.points = scaledPoints,
                                         !.outputs = Append(@, scaledPoints)]
    /\ UNCHANGED landFrame

NextLand ==
    \/ ShiftShapeToLand
    \/ ScaleShapeIfNeeded

SpecLand == InitLand /\ [][NextLand]_vars

\* ----------------------------------------------------------------------
\* Properties of the correction (checked under SpecLand)

\* the correction was applied to its own output
CorrectedTwice(c) == Len(c.outputs) >= 2

\* C18 as claimed: applying the correction to its own output returns
\* point-for-point the same points, for every point list.
C18_Idempotent ==
    CorrectedTwice(corrector) => corrector.outputs[2] = corrector.outputs[1]

\* C18 (amended): the correction returns its own output unchanged
\* whenever that output has no point farther than 1000 m from the user
\* location; when a point is farther and the centre of the points is not
\* the user location, the next application moves every point again by 30%
\* of the way from the centre to the user location.  The minimum-size
\* scale-up by itself is idempotent.
C18_IdempotentOnLand ==
    /\ CorrectedTwice(corrector) =>
          LET once == corrector.outputs[1]
              twice == corrector.outputs[2]
          IN /\ ~anyInOcean(once) => twice = once
             /\ (anyInOcean(once) /\ landShift(once) # 0) =>
                    /\ twice # once
                    /\ \A k \in 1..Len(once) : twice[k] = once[k] + landShift(once)
    /\ \A k \in 1..Len(corrector.outputs) :
          scaleShapeIfNeeded(corrector.outputs[k]) = corrector.outputs[k]

\* a shape was corrected twice and moved both times
C18_Witness ==
    /\ CorrectedTwice(corrector)
    /\ Len(corrector.input) >= 2
    /\ corrector.outputs[1] # corrector.input
    /\ corrector.outputs[2] # corrector.outputs[1]

\* ----------------------------------------------------------------------
\* Point reduction: dedupeSequentialPoints and smoothShapePoints
\* (lib/googleMapsRouting.ts), consolidatePoints (components/ShapeDrawer.tsx)
\* and samplePointsEvery30Meters (unnamed/part_003).  Points lie on a
\* north-south line and are given by their position in metres; the result
\* of a reduction is the list of the indices of the points it returns, so
\* that a point that occurs twice in the input is told apart from its copy.

MaxReduce == 5
MaxTotal == 90

sampleInterval == 30
smoothDistance == 20
turnThreshold == 20

ReducePositions == {0, 5, 30, 45, 90}
Spacings == {5, 10, 15, 30, 45, 90}

\* evenly spaced lists of a total length up to MaxTotal, and short lists
\* of any shape (close, repeated and returning points)
EvenLists == {[i \in 1..(n + 1) |-> (i - 1) * sp] : sp \in Spacings, n \in 1..(MaxTotal \div 5)} 
ShortLists == UNION {[1..n -> ReducePositions] : n \in 0..MaxReduce}
ReduceInputs == {q \in EvenLists : Last(q) <= MaxTotal} \cup ShortLists

\* Math.atan2(dlng, dlat) in degrees for two points of the line
direction(a, b) == IF b - a < 0 THEN 180 ELSE 0

\* calculateDirectionChange([a, b], c)
calculateDirectionChange(a, b, c) ==
    LET angleDiff == Abs(direction(b, c) - direction(a, b))
    IN IF angleDiff > 180 THEN 360 - angleDiff ELSE angleDiff

\* the while loop of consolidatePoints from index i
RECURSIVE consolidateFrom(_, _, _)
consolidateFrom(points, i, consolidated) ==
    IF i > Len(points) - 1 THEN consolidated
    ELSE IF calculateDirectionChange(points[Last(consolidated)], points[i], points[i + 1]) < turnThreshold
         THEN consolidateFrom(points, i + 1, consolidated)
         ELSE consolidateFrom(points, i + 1, Append(consolidated, i))

consolidatePoints(points) ==
    IF Len(points) <= 2 THEN everyIndex(points)
    ELSE Append(consolidateFrom(points, 2, <<1>>), Len(points))

\* the for loop of smoothShapePoints from index i
RECURSIVE smoothFrom(_, _, _, _)
smoothFrom(points, i, smoothed, min) ==
    IF i > Len(points) - 1 THEN smoothed
    ELSE IF calculateHaversineDistance(points[Last(smoothed)], points[i]) >= min \/ Len(smoothed) < 3
         THEN smoothFrom(points, i + 1, Append(smoothed, i), min)
         ELSE smoothFrom(points, i + 1, smoothed, min)

\* points.filter((_, index) => index % 2 === 0 || index === points.length - 1)
RECURSIVE everyOther(_, _)
everyOther(n, k) ==
    IF k > n THEN << >>
    ELSE IF (k - 1) % 2 = 0 \/ k = n THEN <<k>> \o everyOther(n, k + 1)
    ELSE everyOther(n, k + 1)

smoothShapePoints(points, min) ==
    IF Len(points) <= 2 THEN everyIndex(points)
    ELSE LET smoothed == Append(smoothFrom(points, 2, <<1>>, min), Len(points))
         IN IF Len(smoothed) < 3 /\ Len(points) >= 3
            THEN everyOther(Len(points), 1)
            ELSE smoothed

\* a loop that keeps what was travelled beyond the interval
RECURSIVE sampleFromKeepingExcess(_, _, _, _)
sampleFromKeepingExcess(points, i, sampledPoints, currentDistance) ==
    IF i > Len(points) THEN sampledPoints
    ELSE LET travelled == currentDistance + calculateHaversineDistance(points[i - 1], points[i])
         IN IF travelled >= sampleInterval
            THEN sampleFromKeepingExcess(points, i + 1, Append(sampledPoints, i), travelled - sampleInterval)
            ELSE sampleFromKeepingExcess(points, i + 1, sampledPoints, travelled)

\* the for loop of samplePointsEvery30Meters from index i
RECURSIVE sampleFrom(_, _, _, _)
sampleFrom(points, i, sampledPoints, currentDistance) ==
    IF i > Len(points) THEN sampledPoints
    ELSE LET travelled == currentDistance + calculateHaversineDistance(points[i - 1], points[i])
         IN IF travelled >= sampleInterval
            THEN sampleFrom(points, i + 1, Append(sampledPoints, i), 0)
            ELSE sampleFrom(points, i + 1, sampledPoints, travelled)

\* a resampling that does not add the last point
samplePointsWithoutLast(points) ==
    IF Len(points) < 2 THEN everyIndex(points)
    ELSE sampleFrom(points, 2, <<1>>, 0)

samplePointsEvery30Meters(points) ==
    IF Len(points) < 2 THEN everyIndex(points)
    ELSE LET sampledPoints == sampleFrom(points, 2, <<1>>, 0)
         IN IF Last(sampledPoints) # Len(points)
            THEN Append(sampledPoints, Len(points))
            ELSE sampledPoints

InitReduce ==
    /\ PageInit
    /\ fit = NoCall
    /\ resolution = NoCall
    /\ corrector = NoCall
    /\ \E points \in ReduceInputs :
          reduction = [op |-> "input", input |-> points, output |-> << >>]

reduceFrame == <<narrationVars, fit, resolution, corrector>>

\* the result of an operation on the input
reduced(op, kept) == [reduction EXCEPT !.op = op, !.output = kept]

DedupeSequentialPoints ==
    /\ reduction.op = "input"
    /\ reduction' = reduced("dedupeSequentialPoints", dedupeKept(reduction.input, minDistanceMeters))
    /\ UNCHANGED reduceFrame

ConsolidatePoints ==
    /\ reduction.op = "input"
    /\ reduction' = reduced("consolidatePoints", consolidatePoints(reduction.input))
    /\ UNCHANGED reduceFrame

SmoothShapePoints ==
    /\ reduction.op = "input"
    /\ reduction' = reduced("smoothShapePoints", smoothShapePoints(reduction.input, smoothDistance))
    /\ UNCHANGED reduceFrame

SamplePointsEvery30Meters ==
    /\ reduction.op = "input"
    /\ reduction' = reduced("samplePointsEvery30Meters", samplePointsEvery30Meters(reduction.input))
    /\ UNCHANGED reduceFrame

NextReduce ==
    \/ DedupeSequentialPoints
    \/ ConsolidatePoints
    \/ SmoothShapePoints
    \/ SamplePointsEvery30Meters

SpecReduce == InitReduce /\ [][NextReduce]_vars

\* ----------------------------------------------------------------------
\* Properties of the point reduction (checked under SpecReduce)

Reduced(r) == r.op # "input"

\* C19: each reduction (sequential dedupe, direction consolidation,
\* fixed-interval resampling, smoothing) returns, for an input of at least 2
\* points, a subsequence of the input in the input's order that begins with
\* the input's first point and ends with its last point.
C19_SubsequenceWithEnds ==
    (Reduced(reduction) /\ Len(reduction.input) >= 2) =>
        /\ \A k \in 1..Len(reduction.output) : reduction.output[k] \in 1..Len(reduction.input)
        /\ Increasing(reduction.output)
        /\ reduction.output[1] = 1
        /\ Last(reduction.output) = Len(reduction.input)

\* a resampling dropped interior points and kept others
C19_Witness ==
    /\ reduction.op = "samplePointsEvery30Meters"
    /\ Len(reduction.output) >= 3
    /\ Len(reduction.output) < Len(reduction.input)

\* the length of the path through the input
cumulative(points) == pathLength(points, 1, Len(points))

Resampled(r) == r.op = "samplePointsEvery30Meters" /\ Len(r.input) >= 2

\* C20 as claimed: a list whose cumulative distance is exactly 3 x interval
\* is resampled to exactly 4 points, whatever the spacing of its points.
C20_FourPoints ==
    (Resampled(reduction) /\ cumulative(reduction.input) = 3 * sampleInterval)
        => Len(reduction.output) = 4

\* the input is evenly spaced at a spacing that divides the interval
EvenlyDividing(points) ==
    \E sp \in Spacings :
        /\ sampleInterval % sp = 0
        /\ points = [i \in 1..Len(points) |-> (i - 1) * sp]

\* C20 (amended): resampling returns the first point, then each point at
\* which the distance travelled since the point returned before it reaches
\* the interval (what was travelled beyond the interval is dropped), and at
\* the end the last point if it was not just returned.  For a cumulative
\* distance of exactly 3 x interval that is 4 points when the input is
\* evenly spaced at a spacing that divides the interval, and between 2 and
\* 5 points otherwise.
C20_ResamplingRule ==
    Resampled(reduction) =>
        LET points == reduction.input
            out == reduction.output
        IN /\ out[1] = 1 /\ Last(out) = Len(points)
           /\ \A k \in 2..Len(out) :
                 /\ k < Len(out) => pathLength(points, out[k - 1], out[k]) >= sampleInterval
                 /\ \A j \in (out[k - 1] + 1)..(out[k] - 1) :
                        pathLength(points, out[k - 1], j) < sampleInterval
           /\ cumulative(points) = 3 * sampleInterval =>
                 /\ Len(out) >= 2 /\ Len(out) <= 5
                 /\ EvenlyDividing(points) => Len(out) = 4

\* a list of cumulative distance 3 x interval with an uneven spacing was
\* resampled to 3 points
C20_Witness ==
    /\ Resampled(reduction)
    /\ cumulative(reduction.input) = 3 * sampleInterval
    /\ ~EvenlyDividing(reduction.input)
    /\ Len(reduction.output) = 3

\* ----------------------------------------------------------------------
\* Directions loads (Directions.tsx, generateDirections)
\* ----------------------------------------------------------------------
\* the raw steps a load of shape sh ends with, by what its sources gave
loadedSteps(sh, outcome) ==
    IF outcome = "google" THEN GoogleSteps(sh) ELSE MockSteps(sh)

\* after the step the panel shows the controls over the step list `raw`, merged
BecomesActiveWith(raw) ==
    /\ ~loading' /\ error' = "" /\ ~route'.isNull
    /\ route'.steps = raw
    /\ steps' = mergeConsecutiveSteps(raw)

Settled == mounted /\ pending = {} /\ inflight = << >> /\ ~loading

\* C22: when a new shape is selected while the request of the previous one
\* is in flight, the route and the step list the panel holds once both
\* requests are answered are those of the newest shape, with the cursor on
\* one of its steps, in every order of the two answers.
C22_NewestShapeWins ==
    (Settled /\ error = "" /\ ~route.isNull)
    => /\ route.steps \in {GoogleSteps(directionsShape), MockSteps(directionsShape)}
       /\ steps = mergeConsecutiveSteps(route.steps)
       /\ (steps # << >> => HasStep(currentStep))

\* ----------------------------------------------------------------------
\* Chunking and request order of the resolver (checked under SpecResolve)
\* ----------------------------------------------------------------------
\* the resolver has chunked a list of more than 2 ordered points
Chunked(r) == r.op # "none" /\ r.chunks # << >> /\ Len(r.ordered) > 2

\* the chunks joined, each later chunk without its first point
RECURSIVE joinChunks(_)
joinChunks(chunks) ==
    IF chunks = << >> THEN << >>
    ELSE IF Len(chunks) = 1 THEN chunks[1]
    ELSE joinChunks(SubSeq(chunks, 1, Len(chunks) - 1)) \o Tail(Last(chunks))

\* C23: buildPointChunks with limit 20 splits an ordered list of more than 2
\* points into chunks of 2 to 22 points; the last point of a chunk is the
\* first point of the next, the first chunk starts at the first point, the
\* last chunk ends at the last point, and the chunks joined without the
\* first point of each later chunk are the list itself.
C23_ChunksOverlapByOne ==
    Chunked(resolution) =>
        LET chunks == resolution.chunks
            n == Len(resolution.ordered)
        IN /\ maxWaypointsPerRequest = 20
           /\ \A c \in DOMAIN chunks : Len(chunks[c]) >= 2 /\ Len(chunks[c]) <= 22
           /\ \A c \in 1..(Len(chunks) - 1) :
                 /\ Last(chunks[c]) = chunks[c + 1][1]
                 /\ chunks[c + 1][2] # chunks[c][Len(chunks[c]) - 1]
           /\ chunks[1][1] = 1
           /\ Last(Last(chunks)) = n
           /\ joinChunks(chunks) = [k \in 1..n |-> k]

\* a list of 23 ordered points was split into a chunk of 22 and a chunk of 2
C23_Witness ==
    /\ Chunked(resolution)
    /\ Len(resolution.ordered) = 23
    /\ Len(resolution.chunks) = 2
    /\ Len(resolution.chunks[1]) = 22 /\ Len(resolution.chunks[2]) = 2

\* ----------------------------------------------------------------------
\* The awaits of one fit invocation (SpecAwait).  A fit invocation is a loop
\* of trials; each trial awaits one resolve invocation (getShapeRoute), and a
\* resolve invocation is a loop over its chunks that awaits one
\* directionsService.route request per chunk.  `fit` holds the trial loop
\* and the log of what was sent to and received from the provider,
\* `resolution` the resolve invocation of the trial in progress.
\* ----------------------------------------------------------------------
\* trials of one fit invocation that the model follows
MaxTrials == 4
\* chunks of one resolve invocation
MaxChunks == 3

StartTrials ==
    [op |-> "trials", pc |-> "trial", trial |-> 0, log |-> << >>]

\* getShapeRoute(points) called for trial t, on points that make n chunks
\* (none when the provider is not loaded)
StartRequests(t, n) ==
    [op |-> "requests", pc |-> IF n = 0 THEN "done" ELSE "issue",
     trial |-> t, chunks |-> n, c |-> 1, outstanding |-> {}, failures |-> 0]

InitAwait ==
    /\ PageInit
    /\ fit = StartTrials
    /\ resolution = NoCall
    /\ corrector = NoCall
    /\ reduction = NoCall

awaitFrame == <<narrationVars, corrector, reduction>>

\* part_003:867, 877-881, 898 and page.tsx:346, 354  `await getShapeRoute(...)`:
\* the trial loop calls the resolver and is suspended
EvalDist(n) ==
    /\ fit.op = "trials" /\ fit.pc = "trial"
    /\ fit.trial < MaxTrials
    /\ fit' = [fit EXCEPT !.pc = "await", !.trial = @ + 1]
    /\ resolution' = StartRequests(fit.trial + 1, n)
    /\ UNCHANGED awaitFrame

\* a loop that sends the request of the next chunk without awaiting the
\* answer of the one before
RouteRequestUnawaited ==
    /\ resolution.op = "requests" /\ resolution.pc \in {"issue", "await"}
    /\ resolution.c <= resolution.chunks
    /\ resolution' = [resolution EXCEPT !.pc = "await",
                                        !.outstanding = @ \cup {resolution.c},
                                        !.c = @ + 1]
    /\ fit' = [fit EXCEPT !.log = Append(@, [event |-> "request",
                                            trial |-> resolution.trial,
                                            chunk |-> resolution.c])]
    /\ UNCHANGED awaitFrame

\* googleMapsRouting.ts:242  `await directionsService.route({...})`: the
\* chunk loop sends the request of chunk c and is suspended
RouteRequest ==
    /\ resolution.op = "requests" /\ resolution.pc = "issue"
    /\ resolution.c <= resolution.chunks
    /\ resolution' = [resolution EXCEPT !.pc = "await",
                                        !.outstanding = @ \cup {resolution.c},
                                        !.c = @ + 1]
    /\ fit' = [fit EXCEPT !.log = Append(@, [event |-> "request",
                                            trial |-> resolution.trial,
                                            chunk |-> resolution.c])]
    /\ UNCHANGED awaitFrame

\* the promise of a request settles (resolved, or rejected into the catch of
\* lines 267-273) and the chunk loop goes on, or returns after the last chunk
RouteAnswer(k, outcome) ==
    /\ resolution.op = "requests" /\ resolution.pc = "await"
    /\ k \in resolution.outstanding
    /\ LET left == resolution.outstanding \ {k}
       IN resolution' = [resolution EXCEPT
                           !.outstanding = left,
                           !.failures = @ + (IF outcome = "failed" THEN 1 ELSE 0),
                           !.pc = IF left # {} THEN "await"
                                  ELSE IF resolution.c > resolution.chunks THEN "done"
                                  ELSE "issue"]
    /\ fit' = [fit EXCEPT !.log = Append(@, [event |-> "answer",
                                            trial |-> resolution.trial,
                                            chunk |-> k])]
    /\ UNCHANGED awaitFrame

\* getShapeRoute has returned: the trial loop resumes, and either goes on to
\* the next trial or returns (loop bound, tolerance reached, or a throw)
EvalDistReturns(goOn) ==
    /\ fit.op = "trials" /\ fit.pc = "await"
    /\ resolution.op = "requests" /\ resolution.pc = "done"
    /\ fit' = [fit EXCEPT !.pc = IF goOn /\ fit.trial < MaxTrials THEN "trial" ELSE "done"]
    /\ resolution' = NoCall
    /\ UNCHANGED awaitFrame

NextAwait ==
    \/ \E n \in 0..MaxChunks : EvalDist(n)
    \/ RouteRequest
    \/ \E k \in 1..MaxChunks, outcome \in {"path", "failed"} : RouteAnswer(k, outcome)
    \/ \E goOn \in BOOLEAN : EvalDistReturns(goOn)

SpecAwait == InitAwait /\ [][NextAwait]_vars

\* requests of the resolve invocation in progress that are not yet answered
Outstanding == IF resolution.op = "requests" THEN resolution.outstanding ELSE {}

\* event e of the log is the request that follows (trial t, chunk k) in the
\* order of the loops, t and k being the request answered just before it
FollowsInLoopOrder(e, before) ==
    \/ e.trial = before.trial /\ e.chunk = before.chunk + 1
    \/ e.trial > before.trial /\ e.chunk = 1

\* C24: within one fit invocation and within one resolve invocation the
\* provider requests are issued strictly one after another: at most one
\* request is outstanding at any time, and the request of the next chunk or
\* trial is issued only after the answer (or the failure) of the one before
\* has been received.
C24_OneRequestAtATime ==
    fit.op = "trials" =>
        /\ Cardinality(Outstanding) <= 1
        /\ \A p \in DOMAIN fit.log :
              IF p % 2 = 1
              THEN /\ fit.log[p].event = "request"
                   /\ p > 1 => FollowsInLoopOrder(fit.log[p], fit.log[p - 1])
              ELSE /\ fit.log[p].event = "answer"
                   /\ fit.log[p].trial = fit.log[p - 1].trial
                   /\ fit.log[p].chunk = fit.log[p - 1].chunk

\* a fit of at least three trials has returned; one of its resolve
\* invocations sent the requests of three chunks
C24_Witness ==
    /\ fit.op = "trials" /\ fit.pc = "done"
    /\ fit.trial >= 3
    /\ \E p \in DOMAIN fit.log : fit.log[p].event = "request" /\ fit.log[p].chunk = 3
    /\ Len(fit.log) >= 8

\* ----------------------------------------------------------------------
\* Best estimate and call budget of the search (checked under SpecFit)
\* ----------------------------------------------------------------------
\* C25: the (factor, scaledPoints, distance) that the distance-fitting
\* search returns is the best seen: no trial evaluated during the search
\* (bracket ends, widened bracket ends, bisection midpoints) has a strictly
\* smaller absolute error to the target than the returned distance, and the
\* returned points are the base points scaled by the returned factor.
C25_BestSeen ==
    (fit.op = "findScale" /\ Returned(fit)) =>
        /\ fit.pts = "scaled"
        /\ \A e \in fit.errors : Abs(fit.dist - fit.target) <= e

\* the search holds a best estimate that is within tolerance of the target
BestWithinTolerance(c) ==
    /\ c.pts = "scaled"
    /\ Abs(c.dist - c.target) <= findScaleTolerance(c.target)

\* the resolver calls of the search are within its budget: 1 for the base,
\* 2 for the bracket ends, 2 per widening round, 1 per bisection round
WithinBudget(c) ==
    /\ c.w <= 3 /\ c.i <= 7
    /\ c.calls <= 1 + 2 + 2 * c.w + c.i
    /\ c.calls <= 16

\* C26: a fit invocation whose resolver calls return terminates: it widens
\* the bracket at most 3 times and runs at most 7 bisection rounds, so it
\* makes at most 16 resolver calls, and it makes no further resolver call
\* once its best-seen distance is within tolerance of the target.
C26_BoundedCalls ==
    /\ [](fit.op = "findScale" => WithinBudget(fit))
    /\ [][ (fit.op = "findScale" /\ BestWithinTolerance(fit)) => fit'.calls = fit.calls ]_vars

\* ----------------------------------------------------------------------
\* The map's "render drawn shapes" effect (unnamed/part_003, SpecRender).
\* The page keys <Map> by the ids of the drawn shapes: a shape added makes a
\* new Map instance with its own layer group, a shape updated re-runs the
\* effect of the same instance.  Each run clears the layer group and starts
\* one asynchronous computation per shape: fit, then route polylines, then
\* addLayer.  In this specification `corrector` holds the Map: its
\* instance, the effect run, the drawn shapes, the computations in progress
\* and the polylines of its layer group.  The computations of an instance
\* that was unmounted add to the layer group of a map that was removed; the
\* model follows them no further.
\* ----------------------------------------------------------------------
\* runs of the effect that the model follows
MaxRuns == 2

ShapeIds == {1, 2}

\* a shape that is too small, a shape with a point flagged as ocean, and a
\* shape that needs no correction
RenderInputs == {<<0, 10, 20>>, <<600, 990, 1010>>, <<0, 600>>}

\* the factors findScaleForTargetDistance may return (when it does not return null)
Scalings == {minFactor, 2 * Unit}

\* scalePointsAround(points, center, factor); a closed list stays closed
scalePointsAround(points, center, factor) ==
    LET scaled == [k \in 1..Len(points) |-> center + ((points[k] - center) * factor) \div Unit]
    IN IF Len(points) > 2 /\ points[1] = Last(points)
       THEN [scaled EXCEPT ![Len(scaled)] = scaled[1]]
       ELSE scaled

\* drawnShapes.forEach(async (shape) => ...) up to the first await: one
\* computation per shape, each inside findScaleForTargetDistance(shape.points, ...)
renderEffect(shapes, instance, run) ==
    {[instance |-> instance, run |-> run, id |-> id, points |-> shapes[id],
      pc |-> "fit", base |-> shapes[id], routing |-> << >>] : id \in DOMAIN shapes}

\* steps 1 and 2 of getGoogleMapsRoutePolylines and its guard on the result
correctedForRouting(points) ==
    LET scaledPoints == scaleShapeIfNeeded(shiftShapeToLand(points))
    IN IF Len(scaledPoints) < 2 THEN points ELSE scaledPoints

InitRender ==
    /\ PageInit
    /\ fit = NoCall
    /\ resolution = NoCall
    /\ \E points \in RenderInputs :
          corrector = [op |-> "render", instance |-> 1, run |-> 1,
                       shapes |-> [id \in {1} |-> points],
                       tasks |-> renderEffect([id \in {1} |-> points], 1, 1),
                       layer |-> {}]
    /\ reduction = NoCall

renderFrame == <<narrationVars, fit, resolution, reduction>>

\* page.tsx:295-301  a shape is added: the key of <Map> changes, a new
\* instance mounts with an empty layer group and runs the effect
handleShapeComplete(points) ==
    /\ corrector.op = "render"
    /\ corrector.run < MaxRuns
    /\ 2 \notin DOMAIN corrector.shapes
    /\ LET shapes == [id \in ShapeIds |-> IF id = 1 THEN corrector.shapes[1] ELSE points]
       IN corrector' = [corrector EXCEPT
                          !.instance = @ + 1,
                          !.run = @ + 1,
                          !.shapes = shapes,
                          !.layer = {},
                          !.tasks = renderEffect(shapes, corrector.instance + 1,
                                                 corrector.run + 1)]
    /\ UNCHANGED renderFrame

\* page.tsx:303-309  a shape is replaced: same Map instance, the effect on
\* [drawnShapes] clears the layer group and starts over (part_003:1228-1236)
handleShapeUpdate(id, points) ==
    /\ corrector.op = "render"
    /\ corrector.run < MaxRuns
    /\ id \in DOMAIN corrector.shapes
    /\ points # corrector.shapes[id]
    /\ LET shapes == [corrector.shapes EXCEPT ![id] = points]
       IN corrector' = [corrector EXCEPT
                          !.run = @ + 1,
                          !.shapes = shapes,
                          !.layer = {},
                          !.tasks = @ \cup renderEffect(shapes, corrector.instance,
                                                        corrector.run + 1)]
    /\ UNCHANGED renderFrame

\* part_003:1241-1242  the search returns; pointsForRouting
FindScaleReturns(t, found, factor) ==
    /\ corrector.op = "render"
    /\ t \in corrector.tasks /\ t.pc = "fit"
    /\ LET pointsForRouting == IF ~found THEN t.points
                               ELSE scalePointsAround(t.base, userLocation, factor)
       IN corrector' = [corrector EXCEPT
                          !.tasks = (@ \ {t}) \cup
                                    {[t EXCEPT !.pc = "route", !.routing = pointsForRouting]}]
    /\ UNCHANGED renderFrame

\* part_003:1245-1273  getGoogleMapsRoutePolylines returns and its polylines
\* are added to the layer group
PolylinesReturn(t) ==
    /\ corrector.op = "render"
    /\ t \in corrector.tasks /\ t.pc = "route"
    /\ corrector' = [corrector EXCEPT
                       !.tasks = @ \ {t},
                       !.layer = @ \cup {[instance |-> t.instance, run |-> t.run, id |-> t.id,
                                         base |-> t.base,
                                         points |-> correctedForRouting(t.routing)]}]
    /\ UNCHANGED renderFrame

NextRender ==
    \/ \E points \in RenderInputs : handleShapeComplete(points)
    \/ \E id \in ShapeIds, points \in RenderInputs : handleShapeUpdate(id, points)
    \/ \E t \in corrector.tasks, found \in BOOLEAN, factor \in Scalings :
          FindScaleReturns(t, found, factor)
    \/ \E t \in corrector.tasks : PolylinesReturn(t)

SpecRender == InitRender /\ [][NextRender]_vars

\* C27: for every shape rendered, shift-to-land and then the minimum-size
\* scale-up are applied to the shape's points before the distance-fitting
\* search runs, so the base points of the search are the corrected points.
C27_CorrectionsBeforeFit ==
    corrector.op = "render" =>
        /\ \A t \in corrector.tasks :
              t.base = scaleShapeIfNeeded(shiftShapeToLand(t.points))
        /\ \A l \in corrector.layer :
              l.base = scaleShapeIfNeeded(shiftShapeToLand(corrector.shapes[l.id]))
                 \/ l.run # corrector.run

MaxSteps == 3

\* instruction texts: two that differ in case and trailing space only, and
\* a different one
RawInstructions == {<<"a">>, <<"A", " ">>, <<"b">>}
\* distances as the provider writes them
RawDistances == {[v |-> 10, unit |-> "m"], [v |-> 1, unit |-> "km"]}
\* start and end of a step: both missing, both given, the end missing
RawEnds == {<<NoPoint, NoPoint>>, <<0, threshold>>, <<threshold, NoPoint>>}

RawStepChoices ==
    {[instruction |-> i, distance |-> d, start |-> e[1], end |-> e[2]] :
        i \in RawInstructions, d \in RawDistances, e \in RawEnds}

RawStepLists == UNION {[1..n -> RawStepChoices] : n \in 0..MaxSteps}

InitMerge ==
    /\ PageInit
    /\ fit = NoCall
    /\ resolution = NoCall
    /\ corrector = NoCall
    /\ \E rawSteps \in RawStepLists :
          reduction = [op |-> "rawSteps", input |-> rawSteps, output |-> << >>]

mergeFrame == <<narrationVars, fit, resolution, corrector>>

\* Directions.tsx:40 and 53  const merged = mergeConsecutiveSteps(...)
MergeConsecutiveSteps ==
    /\ reduction.op = "rawSteps"
    /\ reduction' = [reduction EXCEPT !.op = "merged",
                                      !.output = mergeConsecutiveSteps(reduction.input)]
    /\ UNCHANGED mergeFrame

NextMerge == MergeConsecutiveSteps

SpecMerge == InitMerge /\ [][NextMerge]_vars

\* the maximal runs of consecutive raw steps with the same normalized
\* instruction, each as [from, to], found from the end of the list
RECURSIVE runsOf(_, _)
runsOf(raw, to) ==
    IF to = 0 THEN << >>
    ELSE LET same(j) == \A k \in j..to :
                           normalizeInstruction(raw[k].instruction)
                             = normalizeInstruction(raw[to].instruction)
             from == CHOOSE j \in 1..to : same(j) /\ (j = 1 \/ ~same(j - 1))
         IN Append(runsOf(raw, from - 1), [from |-> from, to |-> to])

RECURSIVE metersOf(_, _, _)
metersOf(raw, a, b) == IF a > b THEN 0 ELSE toMeters(raw[a].distance) + metersOf(raw, a + 1, b)

\* the end point of the last step of raw[a..b] that has one
RECURSIVE lastEndOf(_, _, _)
lastEndOf(raw, a, b) ==
    IF a > b THEN NoPoint
    ELSE IF raw[b].end # NoPoint THEN raw[b].end
    ELSE lastEndOf(raw, a, b - 1)

Merged(r) == r.op = "merged"

\* what the two statements of C28 share: one merged step per run, no two
\* adjacent merged steps with the same normalized instruction, the distance
\* of a merged step the sum over its run, its start that of the run's first
\* step, the total distance preserved
MergedByRuns(raw, out) ==
    LET runs == runsOf(raw, Len(raw))
    IN /\ Len(out) = Len(runs)
       /\ \A k \in 1..(Len(out) - 1) :
             normalizeInstruction(out[k].instruction)
               # normalizeInstruction(out[k + 1].instruction)
       /\ \A k \in DOMAIN runs :
             /\ out[k].instruction = raw[runs[k].from].instruction
             /\ out[k].distanceMeters = metersOf(raw, runs[k].from, runs[k].to)
             /\ out[k].start = raw[runs[k].from].start
       /\ metersOf(raw, 1, Len(raw)) = metersOf([k \in DOMAIN out |->
                                                   [distance |-> [v |-> out[k].distanceMeters,
                                                                  unit |-> ""]]],
                                                1, Len(out))

\* C28 as claimed: step merging gives a sequence without two adjacent steps
\* of the same normalized instruction; a merged step's distance is the sum
\* of the distances of the raw steps it replaces, its start point that of
\* the first and its end point the end point of the last of them.
C28_MergeAsClaimed ==
    Merged(reduction) =>
        LET raw == reduction.input
            out == reduction.output
            runs == runsOf(raw, Len(raw))
        IN /\ MergedByRuns(raw, out)
           /\ \A k \in DOMAIN runs : out[k].end = raw[runs[k].to].end

\* C28 (amended): as claimed, except that the end point of a merged step is
\* the end point of the last of the raw steps it replaces that has one (and
\* missing when none of them has an end point).
C28_MergeKeepsLastKnownEnd ==
    Merged(reduction) =>
        LET raw == reduction.input
            out == reduction.output
            runs == runsOf(raw, Len(raw))
        IN /\ MergedByRuns(raw, out)
           /\ \A k \in DOMAIN runs :
                 out[k].end = lastEndOf(raw, runs[k].from, runs[k].to)

\* three raw steps were merged into two; the first two differ in case and
\* spacing only and the second of them has no end point
C28_Witness ==
    /\ Merged(reduction)
    /\ Len(reduction.input) = 3 /\ Len(reduction.output) = 2
    /\ reduction.input[1].instruction # reduction.input[2].instruction
    /\ reduction.input[1].end # NoPoint /\ reduction.input[2].end = NoPoint
    /\ reduction.output[1].end = reduction.input[1].end
    /\ reduction.output[1].distanceMeters = 1010

\* ----------------------------------------------------------------------
\* Steps without an end point (checked under Spec)
\* ----------------------------------------------------------------------
\* the cursor is on a step of the loaded list that has no end point, and
\* the route-ready effect of a load is not due
OnStepWithoutEnd ==
    /\ mounted /\ READY \notin pending
    /\ HasStep(currentStep)
    /\ StepAt(currentStep).end = NoPoint

\* C29: while the cursor is on a step that has no end point (every step of
\* a locally generated mock route is one), a position update and the effects
\* it triggers change neither the cursor nor emit narration; the cursor
\* leaves such a step only through a manual control (Next, Previous, a click
\* on a step) as long as the panel stays open.
C29_NoEndNoAutoAdvance ==
    [][ (OnStepWithoutEnd /\ mounted')
        => /\ lastEvent' = "position" => (currentStep' = currentStep /\ emitted' = << >>)
           /\ currentStep' # currentStep =>
                 (pending = {} /\ lastEvent' \in {"next", "other"}) ]_vars

\* a position update was handled with voice and auto-advance on and the
\* cursor on the second step of a mock route: nothing moved, nothing spoken
C29_Witness ==
    /\ mounted /\ pending = {} /\ lastEvent = "position"
    /\ autoAdvanceEnabled /\ voiceEnabled
    /\ Len(steps) = 2 /\ currentStep = 1
    /\ StepAt(1).end = NoPoint
    /\ currentPosition = 0
    /\ advances = 0 /\ narrations = 0

====
